---- MODULE Spec2Model ----
(***************************************************************************)
(* A model of the trading core: the Bot Registry (bot_manager.py), the     *)
(* Snapshot Fetcher (market_data.py), the Orchestrator (main.py) and the   *)
(* Streaming Aggregator / Connection Registry (websocket_manager.py).      *)
(* Each component has its own specification over the shared variables:     *)
(* SpecBot, SpecMD, SpecOrch, and for websocket_manager.py SpecRegistry,   *)
(* SpecFeed, SpecCallbacks and SpecShutdown.                               *)
(***************************************************************************)
EXTENDS Integers, Sequences, FiniteSets, TLC

(***************************************************************************)
(* Bounds of the model                                                     *)
(***************************************************************************)
\* calls of create_bot / apply_ai_recommendations explored in SpecBot on the
\* mock variant
MaxCreate == 3
MaxApply == 2
\* and on the real variant, where every call also draws what the backend does
MaxRealCreate == 2
MaxRealApply == 1
\* snapshots written before get_market_data stops being called in SpecMD
MaxSnapshots == 2
\* iterations of the trading loop explored in SpecOrch
MaxCycles == 2
\* ticker answers the streaming loop stores in SpecRegistry, SpecFeed and SpecCallbacks
MaxTicks == 2
\* calls of subscribe_symbols in SpecRegistry, SpecFeed and SpecCallbacks
MaxSubscribes == 2
\* candles of the longest series handed to a derivation in SpecDerive
MaxCandles == 21

(***************************************************************************)
(* Python values                                                           *)
(***************************************************************************)
\* None and an optional value: None is the empty tuple, a value v is <<v>>
None == <<>>
Some(v) == <<v>>

\* dict.get(key) on a dict modelled as a function: <<value>> or None
DictGetOpt(d, k) == IF k \in DOMAIN d THEN Some(d[k]) ELSE None

\* truthiness of dict.get(key) / dict.get(key, False) for a boolean entry
\* and of dict.get(key) for a numeric entry: absent, False and 0 are falsy
TruthyBool(d, k) == k \in DOMAIN d /\ d[k] = TRUE
TruthyNum(d, k) == k \in DOMAIN d /\ d[k] # 0

\* a dict keyed by pair, kept as its set of <<key, value>> items
ItemGet(items, k) ==
    IF \E e \in items : e[1] = k
    THEN Some((CHOOSE e \in items : e[1] = k)[2])
    ELSE None

ItemSetNoReplace(items, k, v) == items \cup {<<k, v>>}

\* items[k] = v : the previous item of the key, if any, is replaced
ItemSet(items, k, v) == {e \in items : e[1] # k} \cup {<<k, v>>}

\* a dict built from a record of optional entries: the None entries are absent
MkDict(o) == LET D == {k \in DOMAIN o : o[k] # None} IN [k \in D |-> o[k][1]]

(***************************************************************************)
(* Configuration and inputs                                                *)
(***************************************************************************)
\* Config.TRADING_PAIRS
TRADING_PAIRS == <<"BTCUSDT", "ETHUSDT">>
Pairs == {TRADING_PAIRS[i] : i \in 1..Len(TRADING_PAIRS)}

\* Config.MAX_SAFETY_ORDERS
MAX_SAFETY_ORDERS == 3

\* the recommendations of the analysis collaborator: any of should_trade,
\* take_profit, stop_loss and average_confidence may be absent
Recommendation(ts, st, tp, sl, ac) ==
    MkDict([timestamp |-> Some(ts), price |-> Some(100), direction |-> Some("buy"),
            confidence |-> Some(90), should_trade |-> st, take_profit |-> tp,
            stop_loss |-> sl, average_confidence |-> ac])

\* the recommendations the collaborator may produce at time ts
Recommendations(ts) ==
    { Recommendation(ts, st, Some(2), Some(1), Some(86)) :
        st \in {None, Some(TRUE), Some(FALSE)} }
    \cup { Recommendation(ts, Some(TRUE), tp, sl, Some(86)) :
        tp \in {None, Some(0), Some(2)}, sl \in {None, Some(1)} }
    \cup { Recommendation(ts, Some(TRUE), Some(2), Some(1), ac) :
        ac \in {None, Some(85)} }

\* ids the remote backend may assign to a created bot
BackendIds == {7, 8}

VARIABLES
    \* ---- Bot Registry (BaseBotManager / MockBotManager / RealBotManager)
    mock_mode,      \* which variant create_bot_manager built
    active_bots,    \* pair -> bot_id, as a set of items
    mock_trades,    \* bot_id -> list of trade records (MockBotManager)
    next_bot_id,    \* MockBotManager.next_bot_id
    created,        \* history: the handles create_bot returned, in order
    applied,        \* history: number of calls of apply_ai_recommendations
    lastCall        \* history: the last Bot Registry call and its result

botVars == <<mock_mode, active_bots, mock_trades, next_bot_id, created, applied, lastCall>>

VARIABLES
    \* ---- Snapshot Fetcher (MarketDataManager)
    cached_data,    \* symbol -> last snapshot written
    fpc,            \* per caller of get_market_data: where its call is suspended
    fsym,           \* per caller: the symbol it is fetching
    fticker,        \* per caller: the ticker it obtained
    now,            \* the clock datetime.now() reads
    lastFetch,      \* history: the last call that ended, what it returned
    lastGood,       \* history: symbol -> snapshot returned by the latest successful call
    derivation      \* a candle series, the derivation called on it and its result

mdVars == <<cached_data, fpc, fsym, fticker, now, lastFetch, lastGood, derivation>>

VARIABLES
    \* ---- Orchestrator (TradingBot)
    bot_is_running, \* TradingBot.is_running
    opc,            \* where the task running TradingBot.run is suspended
    oidx,           \* index in TRADING_PAIRS of the pair being processed
    osnap,          \* market_data held by process_trading_pair
    stopping,       \* where TradingBot.stop is
    cycle,          \* history: iterations of the while loop begun
    steps,          \* history: per pair finished in this iteration, what its steps did
    statusLog       \* history: status records emitted in this iteration

orchVars == <<bot_is_running, opc, oidx, osnap, stopping, cycle, steps, statusLog>>

VARIABLES
    active_connections, \* BinanceWebsocketManager.active_connections
    market_data,        \* BinanceWebsocketManager.market_data: symbol -> live state
    last_ws_update,     \* symbol -> time of the last stored answer
    price_callbacks,    \* the list of callbacks
    subscribed_symbols,
    is_running,
    binance_client,     \* whether the client has been created
    tasks,              \* the list of tasks, as the ids of the tasks
    loop,               \* frame of the task of _collect_market_data
    handler,            \* per websocket: where connect(websocket) stands
    stop_call,          \* frame of stop()
    start_call,         \* where start() stands
    price_call,         \* frame of get_latest_price
    ticks,              \* datetime.now() of the streaming loop
    subscribeCalls,     \* calls of subscribe_symbols so far
    lastSubscribe,      \* history: the last call of subscribe_symbols
    sweep,              \* history: the current or last call of broadcast
    notified            \* history: the last round of callbacks

vars ==
    <<botVars, mdVars, orchVars, active_connections, market_data, last_ws_update,
      price_callbacks, subscribed_symbols, is_running, binance_client, tasks, loop,
      handler, stop_call, start_call, price_call, ticks, subscribeCalls,
      lastSubscribe, sweep, notified>>

wsVars ==
    <<active_connections, market_data, last_ws_update, price_callbacks,
      subscribed_symbols, is_running, binance_client, tasks, loop, handler,
      stop_call, start_call, price_call, ticks, subscribeCalls,
      lastSubscribe, sweep, notified>>

(***************************************************************************)
(* Bot Registry                                                            *)
(***************************************************************************)
\* MockBotManager.__init__
MockBaseId == 1000

Trades(mt, bot_id) == IF bot_id \in DOMAIN mt THEN mt[bot_id] ELSE <<>>

MockCreateNoIncrement(ab, nid, pair) ==
    [active_bots |-> ItemSet(ab, pair, nid), next_bot_id |-> nid,
     ret |-> Some([id |-> nid, pair |-> pair])]

MockCreateKeepsOld(ab, nid, pair) ==
    [active_bots |-> ItemSetNoReplace(ab, pair, nid), next_bot_id |-> nid + 1,
     ret |-> Some([id |-> nid, pair |-> pair])]

\* MockBotManager.create_bot
MockBotManager_create_bot(ab, nid, pair) ==
    [active_bots |-> ItemSet(ab, pair, nid), next_bot_id |-> nid + 1,
     ret |-> Some([id |-> nid, pair |-> pair])]

\* the record MockBotManager.apply_ai_recommendations appends
MockTradeRecord(rec) ==
    [timestamp |-> DictGetOpt(rec, "timestamp"),
     price |-> DictGetOpt(rec, "price"),
     direction |-> DictGetOpt(rec, "direction"),
     confidence |-> DictGetOpt(rec, "confidence"),
     should_trade |-> TruthyBool(rec, "should_trade")]

\* an apply that keeps only the newest record of the bot
MockApplyReplacesHistory(mt, bot_id, rec) ==
    [mock_trades |-> (bot_id :> <<MockTradeRecord(rec)>>) @@ mt,
     ret |-> TRUE]

\* MockBotManager.apply_ai_recommendations: the record is appended and True
\* returned whatever should_trade says
MockBotManager_apply_ai_recommendations(mt, bot_id, rec) ==
    [mock_trades |-> (bot_id :> Append(Trades(mt, bot_id), MockTradeRecord(rec))) @@ mt,
     ret |-> TRUE]

MockStatsFirstTrade(mt, bot_id) ==
    LET trades == Trades(mt, bot_id) IN
    Some([profit |-> "0.00%", total_trades |-> Len(trades),
          last_trade |-> IF trades # <<>> THEN Some(trades[1]) ELSE None])

\* MockBotManager.get_bot_stats
MockBotManager_get_bot_stats(mt, bot_id) ==
    LET trades == Trades(mt, bot_id) IN
    Some([profit |-> "0.00%", total_trades |-> Len(trades),
          last_trade |-> IF trades # <<>> THEN Some(trades[Len(trades)]) ELSE None])

\* what the calls RealBotManager makes can do: get_account_info and
\* update_bot_settings are not defined in the class as it stands (the call
\* raises AttributeError); a class that defines them returns a value
AccountOutcomes == {"raises", "none", "ok"}
UpdateOutcomes == {"raises", "false", "true"}
\* p3cw.request: raises, or returns (error, data)
CreateResponses(pair) ==
    {[kind |-> "raises"], [kind |-> "error"], [kind |-> "ok", bot |-> [pairs |-> pair]]}
    \cup {[kind |-> "ok", bot |-> [id |-> i, pairs |-> pair]] : i \in BackendIds}
StatsResponses ==
    {[kind |-> "raises"], [kind |-> "error"], [kind |-> "ok", stats |-> [profit |-> "1.5%"]]}

\* lines 89-94: the request is made only with an account
CreateRequests(pair, account) ==
    IF account = "ok" THEN CreateResponses(pair) ELSE {[kind |-> "unasked"]}

\* RealBotManager.create_bot
RealBotManager_create_bot(ab, pair, account, resp) ==
    IF account # "ok" THEN [active_bots |-> ab, ret |-> None]
    ELSE IF resp.kind = "raises" THEN [active_bots |-> ab, ret |-> None]
    ELSE IF resp.kind = "error" THEN [active_bots |-> ab, ret |-> None]
    ELSE IF "id" \notin DOMAIN resp.bot THEN [active_bots |-> ab, ret |-> None]
    ELSE [active_bots |-> ItemSet(ab, pair, resp.bot.id), ret |-> Some(resp.bot)]

\* settings with the full depth from a confidence of 85 on
NewSettingsFrom85(rec) ==
    [take_profit |-> rec.take_profit,
     stop_loss_percentage |-> rec.stop_loss,
     max_safety_orders |->
        IF (IF "average_confidence" \in DOMAIN rec THEN rec.average_confidence ELSE 0) >= 85
        THEN MAX_SAFETY_ORDERS ELSE 1]

\* the settings RealBotManager.apply_ai_recommendations builds
NewSettings(rec) ==
    [take_profit |-> rec.take_profit,
     stop_loss_percentage |-> rec.stop_loss,
     max_safety_orders |->
        IF (IF "average_confidence" \in DOMAIN rec THEN rec.average_confidence ELSE 0) > 85
        THEN MAX_SAFETY_ORDERS ELSE 1]

\* apply_ai_recommendations that reports success whatever update_bot_settings
\* did
ApplyIgnoresUpdate(bot_id, rec, update) ==
    IF ~TruthyBool(rec, "should_trade") THEN [ret |-> FALSE, sent |-> None]
    ELSE IF ~TruthyNum(rec, "take_profit") \/ ~TruthyNum(rec, "stop_loss")
    THEN [ret |-> FALSE, sent |-> None]
    ELSE [ret |-> TRUE, sent |-> Some(NewSettings(rec))]

\* RealBotManager.apply_ai_recommendations: the value returned and the
\* settings handed to update_bot_settings, if it got that far
RealBotManager_apply_ai_recommendations(bot_id, rec, update) ==
    IF ~TruthyBool(rec, "should_trade") THEN [ret |-> FALSE, sent |-> None]
    ELSE IF ~TruthyNum(rec, "take_profit") \/ ~TruthyNum(rec, "stop_loss")
    THEN [ret |-> FALSE, sent |-> None]
    ELSE [ret |-> (update = "true"), sent |-> Some(NewSettings(rec))]

\* lines 134-157: update_bot_settings is called only for a recommendation
\* that passes the tests of lines 134 and 143
UpdateCalls(rec) ==
    IF RealBotManager_apply_ai_recommendations(0, rec, "true").sent = None
    THEN {"unasked"} ELSE UpdateOutcomes

\* RealBotManager.get_bot_stats
RealBotManager_get_bot_stats(bot_id, resp) ==
    IF resp.kind = "ok" THEN Some(resp.stats) ELSE None

notBot == <<mdVars, orchVars, wsVars>>

\* the bot ids a caller may pass: those create_bot returned (the ids of the
\* mapping are among them) and one that no create_bot returned
BotIdInputs ==
    {created[i][1].id : i \in {j \in 1..Len(created) : created[j] # None}}
    \cup {999}

InitBot ==
    /\ mock_mode \in BOOLEAN
    /\ active_bots = {}
    /\ mock_trades = <<>>
    /\ next_bot_id = MockBaseId
    /\ created = <<>>
    /\ applied = 0
    /\ lastCall = [op |-> "none"]

\* await bot_manager.create_bot(pair), mock variant
BotMockCreate ==
    /\ mock_mode
    /\ Len(created) < MaxCreate
    /\ \E pair \in Pairs :
         LET r == MockBotManager_create_bot(active_bots, next_bot_id, pair) IN
         /\ active_bots' = r.active_bots
         /\ next_bot_id' = r.next_bot_id
         /\ created' = Append(created, r.ret)
         /\ lastCall' = [op |-> "create", pair |-> pair, ret |-> r.ret,
                         before |-> active_bots]
    /\ UNCHANGED <<mock_mode, mock_trades, applied>>
    /\ UNCHANGED notBot

\* await bot_manager.create_bot(pair), real variant
BotRealCreate ==
    /\ ~mock_mode
    /\ Len(created) < MaxRealCreate
    /\ \E pair \in Pairs, account \in AccountOutcomes :
       \E resp \in CreateRequests(pair, account) :
         LET r == RealBotManager_create_bot(active_bots, pair, account, resp) IN
         /\ active_bots' = r.active_bots
         /\ created' = Append(created, r.ret)
         /\ lastCall' = [op |-> "create", pair |-> pair, ret |-> r.ret,
                         before |-> active_bots, account |-> account, resp |-> resp]
    /\ UNCHANGED <<mock_mode, mock_trades, next_bot_id, applied>>
    /\ UNCHANGED notBot

\* await bot_manager.apply_ai_recommendations(bot_id, rec), mock variant
BotMockApply ==
    /\ mock_mode
    /\ applied < MaxApply
    /\ \E bot_id \in BotIdInputs, rec \in Recommendations(applied + 1) :
         LET r == MockBotManager_apply_ai_recommendations(mock_trades, bot_id, rec) IN
         /\ mock_trades' = r.mock_trades
         /\ lastCall' = [op |-> "apply", bot_id |-> bot_id, rec |-> rec, ret |-> r.ret,
                         before |-> mock_trades, sent |-> None]
    /\ applied' = applied + 1
    /\ UNCHANGED <<mock_mode, active_bots, next_bot_id, created>>
    /\ UNCHANGED notBot

\* await bot_manager.apply_ai_recommendations(bot_id, rec), real variant
BotRealApply ==
    /\ ~mock_mode
    /\ applied < MaxRealApply
    /\ \E bot_id \in BotIdInputs, rec \in Recommendations(applied + 1) :
       \E update \in UpdateCalls(rec) :
         LET r == RealBotManager_apply_ai_recommendations(bot_id, rec, update) IN
         /\ lastCall' = [op |-> "apply", bot_id |-> bot_id, rec |-> rec, ret |-> r.ret,
                         before |-> mock_trades, sent |-> r.sent, update |-> update]
    /\ applied' = applied + 1
    /\ UNCHANGED <<mock_mode, active_bots, mock_trades, next_bot_id, created>>
    /\ UNCHANGED notBot

\* await bot_manager.get_bot_stats(bot_id), mock variant
BotMockStats ==
    /\ mock_mode
    /\ \E bot_id \in BotIdInputs :
         lastCall' = [op |-> "stats", bot_id |-> bot_id,
                      ret |-> MockBotManager_get_bot_stats(mock_trades, bot_id)]
    /\ UNCHANGED <<mock_mode, active_bots, mock_trades, next_bot_id, created, applied>>
    /\ UNCHANGED notBot

\* await bot_manager.get_bot_stats(bot_id), real variant
BotRealStats ==
    /\ ~mock_mode
    /\ \E bot_id \in BotIdInputs, resp \in StatsResponses :
         lastCall' = [op |-> "stats", bot_id |-> bot_id,
                      ret |-> RealBotManager_get_bot_stats(bot_id, resp), resp |-> resp]
    /\ UNCHANGED <<mock_mode, active_bots, mock_trades, next_bot_id, created, applied>>
    /\ UNCHANGED notBot

NextBot ==
    \/ BotMockCreate
    \/ BotRealCreate
    \/ BotMockApply
    \/ BotRealApply
    \/ BotMockStats
    \/ BotRealStats


(***************************************************************************)
(* Python floats, modelled as exact rationals <<numerator, denominator>>   *)
(* in lowest terms with a positive denominator; a call that raises yields  *)
(* Raises, one that returns v yields Ok(v)                                 *)
(***************************************************************************)
Raises == <<"raise">>
Ok(v) == <<"ok", v>>
IsOk(r) == r[1] = "ok"

Abs(x) == IF x < 0 THEN -x ELSE x

RECURSIVE GCD(_, _)
GCD(a, b) == IF b = 0 THEN a ELSE GCD(b, a % b)

Rat(n, d) ==
    LET g == GCD(Abs(n), Abs(d))
        sg == IF d < 0 THEN -1 ELSE 1
    IN <<(sg * n) \div g, (sg * d) \div g>>

RInt(i) == <<i, 1>>
RAdd(x, y) == Rat(x[1] * y[2] + y[1] * x[2], x[2] * y[2])
RSub(x, y) == Rat(x[1] * y[2] - y[1] * x[2], x[2] * y[2])
RMul(x, y) == Rat(x[1] * y[1], x[2] * y[2])
\* x / y for y # 0
RDiv(x, y) == Rat(x[1] * y[2], x[2] * y[1])
RLt(x, y) == x[1] * y[2] < y[1] * x[2]
RAbs(x) == <<Abs(x[1]), x[2]>>
RIsZero(x) == x[1] = 0

RECURSIVE RSum(_)
RSum(xs) == IF xs = <<>> THEN RInt(0) ELSE RAdd(xs[1], RSum(Tail(xs)))

\* round(x, 2): the nearest multiple of 1/100, a tie going to the even one
Round2(x) ==
    LET n == x[1] * 100
        q == n \div x[2]
        r == n % x[2]
    IN IF 2 * r > x[2] \/ (2 * r = x[2] /\ q % 2 = 1)
       THEN Rat(q + 1, 100) ELSE Rat(q, 100)

\* float(text) for the texts the data source sends; any other text raises
FloatText ==
    ("0.00" :> RInt(0)) @@ ("1.50" :> Rat(3, 2)) @@ ("5.00" :> RInt(5))
    @@ ("98.00" :> RInt(98)) @@ ("99.00" :> RInt(99)) @@ ("100.00" :> RInt(100))
    @@ ("101.00" :> RInt(101)) @@ ("102.00" :> RInt(102))

ParseFloat(text) == IF text \in DOMAIN FloatText THEN Ok(FloatText[text]) ELSE Raises

\* seq[-n:]
LastN(seq, n) == IF Len(seq) <= n THEN seq ELSE SubSeq(seq, Len(seq) - n + 1, Len(seq))

(***************************************************************************)
(* Snapshot Fetcher: the derivations of MarketDataManager                  *)
(***************************************************************************)
\* a candle as the data source sends it; k[4] in the source (0-based) is
\* the close, the fifth element
Candle(close) == <<0, close, close, close, close, "1.00">>
CloseOf(k) == k[5]

\* [float(k[4]) for k in klines]: raises if one close is not a number
RECURSIVE ParseCloses(_)
ParseCloses(klines) ==
    IF klines = <<>> THEN Ok(<<>>)
    ELSE LET h == ParseFloat(CloseOf(klines[1]))
             t == ParseCloses(Tail(klines))
         IN IF IsOk(h) /\ IsOk(t) THEN Ok(<<h[2]>> \o t[2]) ELSE Raises

\* a trend that is bullish from +1% on and bearish from -1% on
TrendFromOnePercent(klines) ==
    IF Len(klines) < 2 THEN Ok("neutral")
    ELSE LET rc == ParseCloses(LastN(klines, 6)) IN
         IF ~IsOk(rc) THEN Raises
         ELSE LET first_price == rc[2][1]
                  last_price == rc[2][Len(rc[2])]
              IN IF RIsZero(first_price) THEN Raises
                 ELSE LET price_change ==
                              RMul(RDiv(RSub(last_price, first_price), first_price), RInt(100))
                      IN IF ~RLt(price_change, RInt(1)) THEN Ok("bullish")
                         ELSE IF ~RLt(RInt(-1), price_change) THEN Ok("bearish")
                         ELSE Ok("neutral")

\* MarketDataManager._calculate_trend
calculate_trend(klines) ==
    IF Len(klines) < 2 THEN Ok("neutral")
    ELSE LET rc == ParseCloses(LastN(klines, 6)) IN
         IF ~IsOk(rc) THEN Raises
         ELSE LET first_price == rc[2][1]
                  last_price == rc[2][Len(rc[2])]
              IN IF RIsZero(first_price) THEN Raises
                 ELSE LET price_change ==
                              RMul(RDiv(RSub(last_price, first_price), first_price), RInt(100))
                      IN IF RLt(RInt(1), price_change) THEN Ok("bullish")
                         ELSE IF RLt(price_change, RInt(-1)) THEN Ok("bearish")
                         ELSE Ok("neutral")

\* MarketDataManager._calculate_volatility
calculate_volatility(klines) ==
    IF Len(klines) < 2 THEN Ok(RInt(0))
    ELSE LET rp == ParseCloses(LastN(klines, 12)) IN
         IF ~IsOk(rp) THEN Raises
         ELSE LET recent_prices == rp[2]
                  n == Len(recent_prices) - 1
              IN IF \E i \in 1..n : RIsZero(recent_prices[i]) THEN Raises
                 ELSE LET price_changes ==
                              [i \in 1..n |->
                                  RAbs(RMul(RDiv(RSub(recent_prices[i + 1], recent_prices[i]),
                                                 recent_prices[i]), RInt(100)))]
                      IN Ok(RDiv(RSum(price_changes), RInt(n)))

\* MarketDataManager._calculate_sma: the last price, not a mean, when there
\* are fewer than period prices
calculate_sma(prices, period) ==
    IF Len(prices) < period
    THEN (IF prices # <<>> THEN prices[Len(prices)] ELSE RInt(0))
    ELSE RDiv(RSum(LastN(prices, period)), RInt(period))

\* MarketDataManager._calculate_rsi
calculate_rsi(prices, period) ==
    IF Len(prices) < period + 1 THEN RInt(50)
    ELSE LET deltas == [i \in 1..(Len(prices) - 1) |-> RSub(prices[i + 1], prices[i])]
             gains == [i \in DOMAIN deltas |->
                          IF RLt(RInt(0), deltas[i]) THEN deltas[i] ELSE RInt(0)]
             losses == [i \in DOMAIN deltas |->
                          IF RLt(deltas[i], RInt(0)) THEN RSub(RInt(0), deltas[i]) ELSE RInt(0)]
             avg_gain == RDiv(RSum(LastN(gains, period)), RInt(period))
             avg_loss == RDiv(RSum(LastN(losses, period)), RInt(period))
         IN IF RIsZero(avg_loss) THEN RInt(100)
            ELSE LET rs == RDiv(avg_gain, avg_loss)
                     rsi == RSub(RInt(100), RDiv(RInt(100), RAdd(RInt(1), rs)))
                 IN Round2(rsi)

\* MarketDataManager._calculate_indicators
calculate_indicators(klines) ==
    IF Len(klines) < 14
    THEN Ok([sma_20 |-> RInt(0), rsi_14 |-> RInt(50), price_vs_sma |-> RInt(0)])
    ELSE LET cl == ParseCloses(klines) IN
         IF ~IsOk(cl) THEN Raises
         ELSE LET closes == cl[2]
                  sma == calculate_sma(closes, 20)
              IN IF RIsZero(sma) THEN Raises
                 ELSE Ok([sma_20 |-> sma,
                          rsi_14 |-> calculate_rsi(closes, 14),
                          price_vs_sma |->
                              RMul(RSub(RDiv(closes[Len(closes)], sma), RInt(1)), RInt(100))])

(***************************************************************************)
(* Snapshot Fetcher: get_market_data and its callers                       *)
(***************************************************************************)
\* the tasks that call get_market_data: the trading loop and a request handler
Fetchers == {"run", "api"}

\* get_ticker: raises, or returns a ticker (the last one lacks fields)
Ticker(price) ==
    [lastPrice |-> price, priceChangePercent |-> "1.50", volume |-> "5.00",
     highPrice |-> "102.00", lowPrice |-> "98.00"]
Tickers == {Ticker("100.00"), Ticker("101.00"), [lastPrice |-> "100.00"]}

\* get_klines: raises, or returns candles
FlatCloses == [i \in 1..15 |-> Candle("100.00")]
RisingCloses == [i \in 1..15 |-> Candle(IF i < 15 THEN "100.00" ELSE "102.00")]
ZeroCloses == [i \in 1..15 |-> Candle(IF i < 15 THEN "0.00" ELSE "100.00")]
KlineSeries == {FlatCloses, RisingCloses, ZeroCloses, <<Candle("100.00"), Candle("n/a")>>}

\* lines 54-56: the three derivations of each candle series
Derived ==
    [klines \in KlineSeries |->
        [trend |-> calculate_trend(klines),
         volatility |-> calculate_volatility(klines),
         indicators |-> calculate_indicators(klines)]]

\* float(ticker[key]): KeyError or ValueError is a raise
TickerFloat(ticker, key) ==
    IF key \in DOMAIN ticker THEN ParseFloat(ticker[key]) ELSE Raises

\* lines 46-59: the snapshot, or a raise in a conversion or a derivation
BuildSnapshot(symbol, ticker, klines, t) ==
    LET current_price == TickerFloat(ticker, "lastPrice")
        change == TickerFloat(ticker, "priceChangePercent")
        volume == TickerFloat(ticker, "volume")
        trend == Derived[klines].trend
        volatility == Derived[klines].volatility
        indicators == Derived[klines].indicators
        high == TickerFloat(ticker, "highPrice")
        low == TickerFloat(ticker, "lowPrice")
    IN IF /\ IsOk(current_price) /\ IsOk(change) /\ IsOk(volume) /\ IsOk(trend)
          /\ IsOk(volatility) /\ IsOk(indicators) /\ IsOk(high) /\ IsOk(low)
       THEN Ok([symbol |-> symbol,
                current_price |-> current_price[2],
                price_change_24h |-> change[2],
                volume_24h |-> volume[2],
                timestamp |-> t,
                trend |-> trend[2],
                volatility |-> volatility[2],
                indicators |-> indicators[2],
                high_24h |-> high[2],
                low_24h |-> low[2]])
       ELSE Raises

ExceptReturnsNone(cache, symbol) ==
    [cached_data |-> cache, ret |-> None, ok |-> FALSE]

\* lines 64-67: the except branch returns the cached snapshot, or None
get_market_data_except(cache, symbol) ==
    [cached_data |-> cache, ret |-> DictGetOpt(cache, symbol), ok |-> FALSE]

\* a finish that stores the ticker's fields before the derivations are done
FinishStoresAsItGoes(cache, symbol, ticker, klines, t) ==
    LET b == BuildSnapshot(symbol, ticker, klines, t)
        current_price == TickerFloat(ticker, "lastPrice")
    IN IF IsOk(b)
       THEN [cached_data |-> (symbol :> b[2]) @@ cache, ret |-> Some(b[2]), ok |-> TRUE]
       ELSE IF IsOk(current_price)
       THEN [cached_data |->
                (symbol :> [symbol |-> symbol, current_price |-> current_price[2],
                            timestamp |-> t]) @@ cache,
             ret |-> DictGetOpt(cache, symbol), ok |-> FALSE]
       ELSE get_market_data_except(cache, symbol)

FinishMergesFields(cache, symbol, ticker, klines, t) ==
    LET b == BuildSnapshot(symbol, ticker, klines, t) IN
    IF IsOk(b)
    THEN [cached_data |->
             (symbol :> IF symbol \in DOMAIN cache
                        THEN [cache[symbol] EXCEPT !.current_price = b[2].current_price,
                                                   !.timestamp = b[2].timestamp]
                        ELSE b[2]) @@ cache,
          ret |-> Some(b[2]), ok |-> TRUE]
    ELSE get_market_data_except(cache, symbol)

\* lines 46-67, run once both requests have answered: the snapshot is built,
\* stored whole under the symbol and returned; a raise goes to the except branch
get_market_data_finish(cache, symbol, ticker, klines, t) ==
    LET b == BuildSnapshot(symbol, ticker, klines, t) IN
    IF IsOk(b)
    THEN [cached_data |-> (symbol :> b[2]) @@ cache, ret |-> Some(b[2]), ok |-> TRUE]
    ELSE get_market_data_except(cache, symbol)

notMD == <<botVars, orchVars, wsVars, derivation>>

\* no derivation has been called on klines yet
NoDerivation(klines) == [klines |-> klines, op |-> "none", ret |-> None]

InitMD ==
    /\ cached_data = <<>>
    /\ fpc = [f \in Fetchers |-> "idle"]
    /\ fsym = [f \in Fetchers |-> None]
    /\ fticker = [f \in Fetchers |-> None]
    /\ now = 1
    /\ lastFetch = [outcome |-> "none"]
    /\ lastGood = [s \in Pairs |-> None]
    /\ derivation = NoDerivation(<<>>)

\* a call ends: its caller is idle again and the history variables record it
FetchEnds(f, r) ==
    /\ cached_data' = r.cached_data
    /\ fpc' = [fpc EXCEPT ![f] = "idle"]
    /\ fsym' = [fsym EXCEPT ![f] = None]
    /\ fticker' = [fticker EXCEPT ![f] = None]
    /\ now' = IF r.ok THEN now + 1 ELSE now
    /\ lastFetch' = [outcome |-> IF r.ok THEN "ok" ELSE "failed", task |-> f,
                     symbol |-> fsym[f][1], ret |-> r.ret, before |-> cached_data]
    /\ lastGood' = IF r.ok THEN [lastGood EXCEPT ![fsym[f][1]] = r.ret] ELSE lastGood

\* get_market_data(symbol) is called and suspends on get_ticker
MDStart(f) ==
    /\ fpc[f] = "idle"
    /\ now <= MaxSnapshots
    /\ \E symbol \in Pairs : fsym' = [fsym EXCEPT ![f] = Some(symbol)]
    /\ fpc' = [fpc EXCEPT ![f] = "ticker"]
    /\ UNCHANGED <<cached_data, fticker, now, lastFetch, lastGood>>
    /\ UNCHANGED notMD

\* get_ticker raises
MDTickerFails(f) ==
    /\ fpc[f] = "ticker"
    /\ FetchEnds(f, get_market_data_except(cached_data, fsym[f][1]))
    /\ UNCHANGED notMD

\* get_ticker answers; the call suspends on get_klines
MDTickerArrives(f) ==
    /\ fpc[f] = "ticker"
    /\ \E ticker \in Tickers : fticker' = [fticker EXCEPT ![f] = Some(ticker)]
    /\ fpc' = [fpc EXCEPT ![f] = "klines"]
    /\ UNCHANGED <<cached_data, fsym, now, lastFetch, lastGood>>
    /\ UNCHANGED notMD

\* get_klines raises
MDKlinesFail(f) ==
    /\ fpc[f] = "klines"
    /\ FetchEnds(f, get_market_data_except(cached_data, fsym[f][1]))
    /\ UNCHANGED notMD

\* get_klines answers; the rest of get_market_data runs without suspending
MDKlinesArrive(f) ==
    /\ fpc[f] = "klines"
    /\ \E klines \in KlineSeries :
         FetchEnds(f, get_market_data_finish(cached_data, fsym[f][1], fticker[f][1],
                                             klines, now))
    /\ UNCHANGED notMD

\* the calling task is cancelled while the call is suspended: CancelledError
\* is not an Exception, the except branch does not run and nothing is returned
MDCancel(f) ==
    /\ fpc[f] \in {"ticker", "klines"}
    /\ fpc' = [fpc EXCEPT ![f] = "idle"]
    /\ fsym' = [fsym EXCEPT ![f] = None]
    /\ fticker' = [fticker EXCEPT ![f] = None]
    /\ lastFetch' = [outcome |-> "cancelled", task |-> f, symbol |-> fsym[f][1],
                     ret |-> None, before |-> cached_data]
    /\ UNCHANGED <<cached_data, now, lastGood>>
    /\ UNCHANGED notMD

NextMD ==
    \E f \in Fetchers :
        \/ MDStart(f)
        \/ MDTickerFails(f)
        \/ MDTickerArrives(f)
        \/ MDKlinesFail(f)
        \/ MDKlinesArrive(f)
        \/ MDCancel(f)

(***************************************************************************)
(* Orchestrator: TradingBot.setup / run / process_trading_pair / stop      *)
(***************************************************************************)
notOrch == <<fpc, fsym, fticker, lastFetch, lastCall, applied, wsVars, derivation>>

InitOrch ==
    /\ bot_is_running = FALSE
    /\ opc = "init"
    /\ oidx = 0
    /\ osnap = None
    /\ stopping = "no"
    /\ cycle = 0
    /\ steps = <<>>
    /\ statusLog = <<>>

\* what one create_bot of setup's loop meets: always the mock's result in
\* mock mode, any backend answer otherwise
SetupOutcomes(pair) ==
    {[account |-> "raises", resp |-> [kind |-> "raises"]],
     [account |-> "ok", resp |-> [kind |-> "error"]],
     [account |-> "ok",
      resp |-> [kind |-> "ok",
                bot |-> [id |-> IF pair = TRADING_PAIRS[1] THEN 7 ELSE 8, pairs |-> pair]]]}

\* lines 56-61: create_bot for each configured pair, in order
RECURSIVE SetupBots(_, _, _, _, _)
SetupBots(i, ab, nid, made, outs) ==
    IF i > Len(TRADING_PAIRS) THEN [active_bots |-> ab, next_bot_id |-> nid, created |-> made]
    ELSE LET pair == TRADING_PAIRS[i] IN
         IF mock_mode
         THEN LET r == MockBotManager_create_bot(ab, nid, pair) IN
              SetupBots(i + 1, r.active_bots, r.next_bot_id, Append(made, r.ret), outs)
         ELSE LET r == RealBotManager_create_bot(ab, pair, outs[pair].account, outs[pair].resp) IN
              SetupBots(i + 1, r.active_bots, nid, Append(made, r.ret), outs)

\* start_bot: setup() creates the bots; a raise in market_data.start() or
\* validate_config() ends the startup and run() is never scheduled
OrchSetup ==
    /\ opc = "init"
    /\ \E outs \in [Pairs -> UNION {SetupOutcomes(p) : p \in Pairs}] :
         /\ \A p \in Pairs : outs[p] \in SetupOutcomes(p)
         /\ LET r == SetupBots(1, active_bots, next_bot_id, created, outs) IN
            /\ active_bots' = r.active_bots
            /\ next_bot_id' = r.next_bot_id
            /\ created' = r.created
    /\ opc' = "ready"
    /\ UNCHANGED <<mock_mode, mock_trades, cached_data, now, lastGood>>
    /\ UNCHANGED <<bot_is_running, oidx, osnap, stopping, cycle, steps, statusLog>>
    /\ UNCHANGED notOrch

OrchSetupFails ==
    /\ opc = "init"
    /\ opc' = "setup_failed"
    /\ UNCHANGED <<botVars, mdVars, wsVars>>
    /\ UNCHANGED <<bot_is_running, oidx, osnap, stopping, cycle, steps, statusLog>>

\* get_market_data as one call: both requests and the rest of the method
get_market_data(cache, symbol, ticker_resp, klines_resp, t) ==
    IF ticker_resp.kind = "raises" \/ klines_resp.kind = "raises"
    THEN get_market_data_except(cache, symbol)
    ELSE get_market_data_finish(cache, symbol, ticker_resp.ticker, klines_resp.klines, t)

\* what the two requests of the trading loop's fetch can do
TickerResponses == {[kind |-> "raises"], [kind |-> "ok", ticker |-> Ticker("100.00")]}
KlineResponses ==
    {[kind |-> "raises"], [kind |-> "ok", klines |-> FlatCloses],
     [kind |-> "ok", klines |-> ZeroCloses]}

\* analyze_market: raises, returns nothing, or returns a recommendation
AnalysisOutcomes(ts) ==
    {[kind |-> "raises"], [kind |-> "none"]}
    \cup {[kind |-> "ok", analysis |-> rec] : rec \in Recommendations(ts)}

AfterPairAbortsOnFailure(idx, step) ==
    IF idx < Len(TRADING_PAIRS) /\ step.snapshot /\ step.analysis # "raised"
    THEN [opc |-> "fetch", oidx |-> idx + 1]
    ELSE [opc |-> "sleep", oidx |-> idx]

\* lines 74-76: process_trading_pair returned (it catches every Exception of
\* its steps): the for loop goes to the next pair, or to the sleep after the last
AfterPair(idx, step) ==
    IF idx < Len(TRADING_PAIRS)
    THEN [opc |-> "fetch", oidx |-> idx + 1]
    ELSE [opc |-> "sleep", oidx |-> idx]

\* the pair's step is over
PairDone(step) ==
    LET nxt == AfterPair(oidx, step) IN
    /\ steps' = Append(steps, step)
    /\ opc' = nxt.opc
    /\ oidx' = nxt.oidx
    /\ osnap' = None

\* what the steps of one pair did
Step(pair, snapshot, analysis, bot, apply_ret, stats) ==
    [pair |-> pair, snapshot |-> snapshot, analysis |-> analysis, bot |-> bot,
     applied |-> apply_ret, stats |-> stats]

\* lines 69-75: run() starts, the first pair's get_market_data is awaited
OrchRun ==
    /\ opc = "ready"
    /\ bot_is_running' = TRUE
    /\ cycle' = 1
    /\ steps' = <<>>
    /\ statusLog' = <<>>
    /\ opc' = "fetch"
    /\ oidx' = 1
    /\ UNCHANGED <<osnap, stopping>>
    /\ UNCHANGED <<botVars, mdVars, wsVars>>

\* lines 84-88: with the answer r of get_market_data: without a snapshot the
\* pair's step ends, with one analyze_market is awaited
OrchFetched(pair, r) ==
    /\ cached_data' = r.cached_data
    /\ now' = IF r.ok THEN now + 1 ELSE now
    /\ lastGood' = IF r.ok THEN [lastGood EXCEPT ![pair] = r.ret] ELSE lastGood
    /\ IF r.ret = None
       THEN PairDone(Step(pair, FALSE, "n/a", FALSE, None, None))
       ELSE /\ osnap' = r.ret
            /\ opc' = "analyze"
            /\ UNCHANGED <<oidx, steps>>

\* line 83: get_market_data answers
OrchFetchDone ==
    /\ opc = "fetch"
    /\ \E ticker_resp \in TickerResponses, klines_resp \in KlineResponses :
         OrchFetched(TRADING_PAIRS[oidx],
                     get_market_data(cached_data, TRADING_PAIRS[oidx], ticker_resp,
                                     klines_resp, now))
    /\ UNCHANGED <<bot_is_running, stopping, cycle, statusLog>>
    /\ UNCHANGED <<mock_mode, active_bots, mock_trades, next_bot_id, created>>
    /\ UNCHANGED notOrch

\* the status record of log_status
StatusRecord(pair, snapshot, analysis, stats) ==
    [pair |-> pair,
     current_price |-> snapshot.current_price,
     price_change_24h |-> snapshot.price_change_24h,
     bot_profit |-> stats.profit,
     average_confidence |-> DictGetOpt(analysis, "average_confidence")]

\* a step that fetches the stats and emits the record whatever the apply
\* returned
ApplyAndLogWhateverApplied(pair, snapshot, analysis, update, stats_resp) ==
    LET b == ItemGet(active_bots, pair) IN
    IF b = None \/ b = Some(0)
    THEN [mock_trades |-> mock_trades, status |-> <<>>,
          step |-> Step(pair, TRUE, "ok", FALSE, None, None)]
    ELSE LET bot_id == b[1]
             a == IF mock_mode
                  THEN MockBotManager_apply_ai_recommendations(mock_trades, bot_id, analysis)
                  ELSE [mock_trades |-> mock_trades,
                        ret |-> RealBotManager_apply_ai_recommendations(bot_id, analysis, update).ret]
             stats == IF mock_mode THEN MockBotManager_get_bot_stats(a.mock_trades, bot_id)
                      ELSE RealBotManager_get_bot_stats(bot_id, stats_resp)
         IN IF stats = None
            THEN [mock_trades |-> a.mock_trades, status |-> <<>>,
                  step |-> Step(pair, TRUE, "ok", TRUE, Some(a.ret), Some(FALSE))]
            ELSE [mock_trades |-> a.mock_trades,
                  status |-> <<StatusRecord(pair, snapshot, analysis, stats[1])>>,
                  step |-> Step(pair, TRUE, "ok", TRUE, Some(a.ret), Some(TRUE))]

\* lines 93-104 and log_status, from the recommendation on: the bot is looked
\* up, the recommendation applied and, when that returned True, the stats
\* fetched and the status record emitted (stats None makes stats.get raise,
\* which log_status catches)
ApplyAndLog(pair, snapshot, analysis, update, stats_resp) ==
    LET b == ItemGet(active_bots, pair) IN
    IF b = None \/ b = Some(0)
    THEN [mock_trades |-> mock_trades, status |-> <<>>,
          step |-> Step(pair, TRUE, "ok", FALSE, None, None)]
    ELSE LET bot_id == b[1]
             a == IF mock_mode
                  THEN MockBotManager_apply_ai_recommendations(mock_trades, bot_id, analysis)
                  ELSE [mock_trades |-> mock_trades,
                        ret |-> RealBotManager_apply_ai_recommendations(bot_id, analysis, update).ret]
             stats == IF mock_mode THEN MockBotManager_get_bot_stats(a.mock_trades, bot_id)
                      ELSE RealBotManager_get_bot_stats(bot_id, stats_resp)
         IN IF ~a.ret
            THEN [mock_trades |-> a.mock_trades, status |-> <<>>,
                  step |-> Step(pair, TRUE, "ok", TRUE, Some(FALSE), None)]
            ELSE IF stats = None
            THEN [mock_trades |-> a.mock_trades, status |-> <<>>,
                  step |-> Step(pair, TRUE, "ok", TRUE, Some(TRUE), Some(FALSE))]
            ELSE [mock_trades |-> a.mock_trades,
                  status |-> <<StatusRecord(pair, snapshot, analysis, stats[1])>>,
                  step |-> Step(pair, TRUE, "ok", TRUE, Some(TRUE), Some(TRUE))]

\* the rest of the pair's step, with the result r of ApplyAndLog
OrchApplied(r) ==
    /\ mock_trades' = r.mock_trades
    /\ statusLog' = statusLog \o r.status
    /\ PairDone(r.step)

\* lines 88-107: analyze_market answers and the rest of the pair's step runs
OrchAnalyzeDone ==
    /\ opc = "analyze"
    /\ \E out \in AnalysisOutcomes(cycle), update \in UpdateOutcomes, stats_resp \in StatsResponses :
         IF out.kind # "ok"
         THEN /\ PairDone(Step(TRADING_PAIRS[oidx], TRUE,
                               IF out.kind = "raises" THEN "raised" ELSE "none",
                               FALSE, None, None))
              /\ UNCHANGED <<mock_trades, statusLog>>
         ELSE OrchApplied(ApplyAndLog(TRADING_PAIRS[oidx], osnap[1], out.analysis,
                                      update, stats_resp))
    /\ UNCHANGED <<bot_is_running, stopping, cycle>>
    /\ UNCHANGED <<mock_mode, active_bots, next_bot_id, created>>
    /\ UNCHANGED <<mdVars, wsVars>>
    /\ UNCHANGED <<lastCall, applied>>

\* lines 73-76: the sleep ends, is_running is still set: the next iteration
OrchNextCycle ==
    /\ opc = "sleep"
    /\ bot_is_running
    /\ cycle < MaxCycles
    /\ cycle' = cycle + 1
    /\ steps' = <<>>
    /\ statusLog' = <<>>
    /\ opc' = "fetch"
    /\ oidx' = 1
    /\ UNCHANGED <<bot_is_running, osnap, stopping>>
    /\ UNCHANGED <<botVars, mdVars, wsVars>>

\* line 73: the sleep ends, is_running was cleared: run() returns
OrchLoopExit ==
    /\ opc = "sleep"
    /\ ~bot_is_running
    /\ opc' = "ended"
    /\ UNCHANGED <<bot_is_running, oidx, osnap, stopping, cycle, steps, statusLog>>
    /\ UNCHANGED <<botVars, mdVars, wsVars>>

\* lines 128-130: stop() clears is_running and awaits market_data.stop(); the
\* task of run() exists from line 140 on and runs its first statement only
\* when the event loop next turns, so stop() can come before it
OrchStop ==
    /\ stopping = "no"
    /\ opc \in {"ready", "fetch", "analyze", "sleep"}
    /\ bot_is_running' = FALSE
    /\ stopping' = "closing"
    /\ UNCHANGED <<opc, oidx, osnap, cycle, steps, statusLog>>
    /\ UNCHANGED <<botVars, mdVars, wsVars>>

\* lines 130-132: market_data.stop() returned: the task of run() is cancelled;
\* CancelledError is raised at the await it is suspended on and ends it, and
\* a task that has not started yet never runs
OrchStopCancels ==
    /\ stopping = "closing"
    /\ stopping' = "done"
    /\ opc' = IF opc \in {"ready", "fetch", "analyze", "sleep"} THEN "cancelled" ELSE opc
    /\ UNCHANGED <<bot_is_running, oidx, osnap, cycle, steps, statusLog>>
    /\ UNCHANGED <<botVars, mdVars, wsVars>>

\* line 130: market_data.stop() raises: stop() ends there, nothing is cancelled
OrchStopFails ==
    /\ stopping = "closing"
    /\ stopping' = "failed"
    /\ UNCHANGED <<bot_is_running, opc, oidx, osnap, cycle, steps, statusLog>>
    /\ UNCHANGED <<botVars, mdVars, wsVars>>

NextOrch ==
    \/ OrchSetup
    \/ OrchSetupFails
    \/ OrchRun
    \/ OrchFetchDone
    \/ OrchAnalyzeDone
    \/ OrchNextCycle
    \/ OrchLoopExit
    \/ OrchStop
    \/ OrchStopCancels
    \/ OrchStopFails

(***************************************************************************)
(* Streaming Aggregator and Connection Registry (websocket_manager.py)     *)
(***************************************************************************)
\* the websockets of the clients, the callbacks a caller may register and
\* the symbol lists passed to subscribe_symbols
Conns == {"A", "B", "C"}
\* the websockets are interchangeable: they reach connect() in this order
Earlier(c) == IF c = "A" THEN {} ELSE IF c = "B" THEN {"A"} ELSE {"A", "B"}
Callbacks == {"cb1", "cb2"}
SymbolLists == {<<"BTCUSDT">>, <<"BTCUSDT", "ETHUSDT">>, <<"ETHUSDT", "ETHUSDT">>}
\* the symbol list subscribed where the clients are followed
RegistrySymbolLists == {<<"BTCUSDT">>}

Range(s) == {s[i] : i \in 1..Len(s)}

\* d[k] = v on a dict
DictSet(d, k, v) == [x \in DOMAIN d \cup {k} |-> IF x = k THEN v ELSE d[x]]

\* get_ticker answers of the streaming loop: a full ticker, or one without
\* priceChangePercent and volume
WSTickers == {Ticker("100.00"), [lastPrice |-> "100.00"]}

\* lines 98-102: the record subscribe_symbols stores for a new symbol
EmptyState(symbol) == [symbol |-> symbol, current_price |-> None, timestamp |-> None]

\* lines 116-122: the record of one iteration, or a raise in a conversion
BuildLiveState(symbol, ticker, t) ==
    IF /\ IsOk(TickerFloat(ticker, "lastPrice"))
       /\ IsOk(TickerFloat(ticker, "priceChangePercent"))
       /\ IsOk(TickerFloat(ticker, "volume"))
    THEN Ok([symbol |-> symbol,
             current_price |-> Some(TickerFloat(ticker, "lastPrice")[2]),
             price_change_24h |-> TickerFloat(ticker, "priceChangePercent")[2],
             volume_24h |-> TickerFloat(ticker, "volume")[2],
             timestamp |-> Some(t)])
    ELSE Raises

\* subscribe_symbols without the membership test of line 96
SubscribeAlwaysResets(st, symbol) ==
    [subscribed |-> st.subscribed \cup {symbol},
     market_data |-> DictSet(st.market_data, symbol, EmptyState(symbol))]

\* lines 96-102: one symbol of the list
subscribe_symbol(st, symbol) ==
    IF symbol \notin st.subscribed
    THEN [subscribed |-> st.subscribed \cup {symbol},
          market_data |-> DictSet(st.market_data, symbol, EmptyState(symbol))]
    ELSE st

\* lines 95-102: the symbols of the list from position i on, in order
RECURSIVE subscribe_from(_, _, _)
subscribe_from(st, symbols, i) ==
    IF i > Len(symbols) THEN st
    ELSE subscribe_from(subscribe_symbol(st, symbols[i]), symbols, i + 1)

subscribe_symbols(subscribed, md, symbols) ==
    subscribe_from([subscribed |-> subscribed, market_data |-> md], symbols, 1)

\* the frame of _collect_market_data before the task exists
NoFrame ==
    [pc |-> "none", id |-> 0, symbol |-> "", sym_seen |-> {}, sym_size0 |-> 0,
     conn |-> "", bc_seen |-> {}, bc_size0 |-> 0, bc_fresh |-> {}, disconnected |-> {}]

\* the task start() creates
TaskId == 1

LivePcs == {"created", "ticker", "send", "sleep1", "sleep5"}

\* line 111, the for statement asks the set iterator for the next symbol: a
\* set whose size changed since the iterator was made raises RuntimeError,
\* caught at line 139; an exhausted iterator leads to the sleep of line 137
SymNext(l, subs) ==
    IF Cardinality(subs) # l.sym_size0 THEN {[l EXCEPT !.pc = "sleep5"]}
    ELSE IF subs \ l.sym_seen = {} THEN {[l EXCEPT !.pc = "sleep1"]}
    ELSE {[l EXCEPT !.pc = "ticker", !.symbol = s, !.sym_seen = @ \cup {s}] :
            s \in subs \ l.sym_seen}

\* a loop that does not look at the running flag
LoopTopIgnoresFlag(l, running, subs) ==
    SymNext([l EXCEPT !.sym_seen = {}, !.sym_size0 = Cardinality(subs)], subs)

\* a loop that gives up after a failed iteration
LoopTopEndsAfterFailure(l, running, subs) ==
    IF ~running \/ l.pc = "sleep5" THEN {[l EXCEPT !.pc = "exited"]}
    ELSE SymNext([l EXCEPT !.sym_seen = {}, !.sym_size0 = Cardinality(subs)], subs)

\* lines 109-113: the while test, then a new iterator over subscribed_symbols
LoopTop(l, running, subs) ==
    IF ~running THEN {[l EXCEPT !.pc = "exited"]}
    ELSE SymNext([l EXCEPT !.sym_seen = {}, !.sym_size0 = Cardinality(subs)], subs)

\* broadcast is left: its locals are gone
BroadcastLeft(l) ==
    [l EXCEPT !.conn = "", !.bc_seen = {}, !.bc_size0 = 0, !.bc_fresh = {},
              !.disconnected = {}]

\* the for statement of line 159 goes on to the send to c
SendNext(l, conns, c) ==
    [loop |-> [l EXCEPT !.pc = "send", !.conn = c, !.bc_seen = @ \cup {c}],
     conns |-> conns, sweep |-> "running", attempted |-> l.bc_seen \cup {c},
     failed |-> l.disconnected]

\* line 167 and the return to line 111
SweepEnd(l, conns, subs) ==
    {[loop |-> l2, conns |-> conns \ l.disconnected, sweep |-> "completed",
      attempted |-> l.bc_seen, failed |-> l.disconnected] :
        l2 \in SymNext(BroadcastLeft(l), subs)}

\* broadcast in which the first failed send ends the sweep
ConnNextStopsAtFailure(l, conns, subs) ==
    IF l.disconnected # {} \/ conns \ l.bc_seen = {}
    THEN SweepEnd(l, conns, subs)
    ELSE {SendNext(l, conns, c) : c \in conns \ l.bc_seen}

\* line 159, the for statement asks the iterator over active_connections for
\* the next connection. A set whose size changed since the iterator was made
\* raises RuntimeError, which leaves broadcast before line 167 and is caught
\* at line 139. Otherwise a connection not yet visited is next; connections
\* added since the iterator was made may be passed over.
ConnNext(l, conns, subs) ==
    IF Cardinality(conns) # l.bc_size0
    THEN {[loop |-> [BroadcastLeft(l) EXCEPT !.pc = "sleep5"], conns |-> conns,
           sweep |-> "aborted", attempted |-> l.bc_seen, failed |-> l.disconnected]}
    ELSE {SendNext(l, conns, c) : c \in conns \ l.bc_seen}
         \cup (IF conns \ l.bc_seen \subseteq l.bc_fresh
               THEN SweepEnd(l, conns, subs) ELSE {})

\* lines 158-159: broadcast is entered
BroadcastBegin(l, conns) ==
    [l EXCEPT !.bc_seen = {}, !.bc_size0 = Cardinality(conns), !.bc_fresh = {},
              !.disconnected = {}]

\* the frame of stop() before it is called; start is history: the live set
\* when stop() was called
NoStop ==
    [pc |-> "none", conn |-> "", seen |-> {}, size0 |-> 0, fresh |-> {}, start |-> {}]

\* line 51, the for statement of stop() asks for the next connection: a set
\* whose size changed raises RuntimeError, caught and re-raised at lines
\* 65-67; after the last connection lines 58-62 follow
StopNext(sc, conns, client) ==
    IF Cardinality(conns) # sc.size0
    THEN {[call |-> [sc EXCEPT !.pc = "raised"], clear |-> FALSE]}
    ELSE {[call |-> [sc EXCEPT !.pc = "closing", !.conn = c, !.seen = @ \cup {c}],
           clear |-> FALSE] : c \in conns \ sc.seen}
         \cup (IF conns \ sc.seen \subseteq sc.fresh
               THEN {IF client
                     THEN [call |-> [sc EXCEPT !.pc = "client"], clear |-> FALSE]
                     ELSE [call |-> [sc EXCEPT !.pc = "done"], clear |-> TRUE]}
               ELSE {})

\* history of a call of broadcast: the live set at its start, the connections
\* a send was attempted on, those whose send raised and those whose send
\* returned, whether another task changed the live set meanwhile, and the
\* connections other tasks added to and removed from it meanwhile
NoSweep ==
    [status |-> "none", start |-> {}, attempted |-> {}, failed |-> {}, delivered |-> {},
     disturbed |-> FALSE, added |-> {}, removed |-> {}]

\* a change of active_connections made while a sweep is suspended on a send
Disturb(s) == IF s.status = "running" THEN [s EXCEPT !.disturbed = TRUE] ELSE s

\* line 146 while a sweep is suspended on a send
DisturbAdd(s, c) ==
    IF s.status = "running" THEN [Disturb(s) EXCEPT !.added = @ \cup {c}] ELSE s

\* lines 151, 154 and 62 while a sweep is suspended on a send
DisturbRemove(s, cs) ==
    IF s.status = "running" THEN [Disturb(s) EXCEPT !.removed = @ \cup cs] ELSE s

notWS == <<botVars, mdVars, orchVars>>

\* lines 11-21
InitWS ==
    /\ active_connections = {}
    /\ market_data = [s \in {} |-> None]
    /\ last_ws_update = [s \in {} |-> 0]
    /\ price_callbacks = <<>>
    /\ subscribed_symbols = {}
    /\ is_running = FALSE
    /\ binance_client = FALSE
    /\ tasks = <<>>
    /\ loop = NoFrame
    /\ handler = [c \in Conns |-> "new"]
    /\ stop_call = NoStop
    /\ start_call = "idle"
    /\ price_call = [pc |-> "idle", symbol |-> ""]
    /\ ticks = 0
    /\ subscribeCalls = 0
    /\ lastSubscribe = [symbols |-> <<>>, populated |-> {}]
    /\ sweep = NoSweep
    /\ notified = [data |-> None, called |-> <<>>, raised |-> {}]

wsData == <<market_data, last_ws_update, ticks, notified>>
wsSubs == <<subscribed_symbols, subscribeCalls, lastSubscribe>>
wsLife == <<is_running, binance_client, tasks, start_call>>

\* lines 145-146: accept() returns and the websocket joins the live set (a
\* connect() whose accept() raises ends there and changes nothing)
WSAccept(c) ==
    /\ handler[c] = "new"
    /\ \A e \in Earlier(c) : handler[e] # "new"
    /\ active_connections' = active_connections \cup {c}
    /\ handler' = [handler EXCEPT ![c] = "open"]
    /\ loop' = IF loop.pc = "send" THEN [loop EXCEPT !.bc_fresh = @ \cup {c}] ELSE loop
    /\ stop_call' = IF stop_call.pc = "closing"
                    THEN [stop_call EXCEPT !.fresh = @ \cup {c}] ELSE stop_call
    /\ sweep' = DisturbAdd(sweep, c)
    /\ UNCHANGED <<price_callbacks, price_call, wsData, wsSubs, wsLife>>
    /\ UNCHANGED notWS

\* lines 149-154: receive_text raises and the websocket is in the live set
WSDisconnect(c) ==
    /\ handler[c] = "open"
    /\ c \in active_connections
    /\ active_connections' = active_connections \ {c}
    /\ handler' = [handler EXCEPT ![c] = "ended"]
    /\ sweep' = DisturbRemove(sweep, {c})
    /\ UNCHANGED <<price_callbacks, loop, stop_call, price_call, wsData, wsSubs, wsLife>>
    /\ UNCHANGED notWS

\* lines 149-154: receive_text raises and the websocket is no longer in the
\* live set: set.remove raises KeyError, which leaves connect
WSDisconnectAbsent(c) ==
    /\ handler[c] = "open"
    /\ c \notin active_connections
    /\ handler' = [handler EXCEPT ![c] = "keyerror"]
    /\ UNCHANGED <<active_connections, price_callbacks, loop, stop_call, price_call, sweep,
                   wsData, wsSubs, wsLife>>
    /\ UNCHANGED notWS

\* lines 169-172
WSAddCallback(cb) ==
    /\ cb \notin Range(price_callbacks)
    /\ price_callbacks' = Append(price_callbacks, cb)
    /\ UNCHANGED <<active_connections, loop, handler, stop_call, price_call, sweep,
                   wsData, wsSubs, wsLife>>
    /\ UNCHANGED notWS

\* lines 174-177
WSRemoveCallback(cb) ==
    /\ cb \in Range(price_callbacks)
    /\ price_callbacks' = SelectSeq(price_callbacks, LAMBDA x : x # cb)
    /\ UNCHANGED <<active_connections, loop, handler, stop_call, price_call, sweep,
                   wsData, wsSubs, wsLife>>
    /\ UNCHANGED notWS

\* lines 92-103 with the outcome st of the loop over the list
Subscribed(symbols, st) ==
    /\ subscribed_symbols' = st.subscribed
    /\ market_data' = st.market_data
    /\ subscribeCalls' = subscribeCalls + 1
    /\ lastSubscribe' =
         [symbols |-> symbols,
          populated |-> {s \in Range(symbols) \cap subscribed_symbols :
                            market_data[s].timestamp # None}]
    /\ UNCHANGED <<active_connections, price_callbacks, loop, handler, stop_call,
                   price_call, sweep, last_ws_update, ticks, notified, wsLife>>
    /\ UNCHANGED notWS

\* subscribe_symbols(symbols)
WSSubscribe(symbols) ==
    /\ subscribeCalls < MaxSubscribes
    /\ Subscribed(symbols, subscribe_symbols(subscribed_symbols, market_data, symbols))

\* lines 25-28: start() sets is_running and awaits AsyncClient.create(). The
\* model follows start() until it has created the task of _collect_market_data.
WSStart ==
    /\ ~is_running
    /\ start_call = "idle"
    /\ loop.pc = "none"
    /\ is_running' = TRUE
    /\ start_call' = "creating"
    /\ UNCHANGED <<active_connections, price_callbacks, loop, handler, stop_call,
                   price_call, sweep, wsData, wsSubs, binance_client, tasks>>
    /\ UNCHANGED notWS

\* lines 28-34: the client is there, the task is created and kept in tasks
WSStartCreated ==
    /\ start_call = "creating"
    /\ binance_client' = TRUE
    /\ loop' = [NoFrame EXCEPT !.pc = "created", !.id = TaskId]
    /\ tasks' = Append(tasks, TaskId)
    /\ start_call' = "idle"
    /\ UNCHANGED <<active_connections, price_callbacks, handler, stop_call, price_call,
                   sweep, wsData, wsSubs, is_running>>
    /\ UNCHANGED notWS

\* lines 28, 35-38: AsyncClient.create() raises
WSStartFails ==
    /\ start_call = "creating"
    /\ is_running' = FALSE
    /\ start_call' = "idle"
    /\ UNCHANGED <<active_connections, price_callbacks, loop, handler, stop_call,
                   price_call, sweep, wsData, wsSubs, binance_client, tasks>>
    /\ UNCHANGED notWS

\* the loop reaches line 109 and runs to its next await
LoopResumes ==
    /\ \E l \in LoopTop(loop, is_running, subscribed_symbols) : loop' = l
    /\ sweep' = NoSweep
    /\ UNCHANGED <<active_connections, price_callbacks, handler, stop_call, price_call,
                   wsData, wsSubs, wsLife>>
    /\ UNCHANGED notWS

\* the task of _collect_market_data runs for the first time
WSTaskBegin == loop.pc = "created" /\ LoopResumes

\* lines 137 and 141: the sleep is over
WSSleepDone == loop.pc \in {"sleep1", "sleep5"} /\ LoopResumes

\* lines 139-141: an exception of the iteration is logged, the loop sleeps 5 s
Backoff ==
    /\ loop' = [loop EXCEPT !.pc = "sleep5"]
    /\ sweep' = NoSweep
    /\ UNCHANGED <<active_connections, price_callbacks, handler, stop_call, price_call,
                   wsData, wsSubs, wsLife>>
    /\ UNCHANGED notWS

\* line 113: get_ticker raises
WSTickerFails == loop.pc = "ticker" /\ Backoff

\* the callback round before its first call: the callbacks called so far,
\* those whose exception was logged, and whether an exception left the round
NoRound == [called |-> <<>>, logged |-> {}, escaped |-> FALSE]

\* a round in which the exception of a callback is not caught
NotifyOneUncaught(round, callback, raising) ==
    [called |-> Append(round.called, callback),
     logged |-> round.logged,
     escaped |-> callback \in raising]

\* lines 129-132: one callback is called; when it raises (it is in raising)
\* the exception is caught and logged
notify_one(round, callback, raising) ==
    [called |-> Append(round.called, callback),
     logged |-> round.logged \cup (IF callback \in raising THEN {callback} ELSE {}),
     escaped |-> FALSE]

RECURSIVE notify_from(_, _, _, _)
\* line 128: the for statement from the i-th callback of the list on; an
\* exception that leaves the body ends it
notify_from(callbacks, raising, i, round) ==
    IF i > Len(callbacks) \/ round.escaped THEN round
    ELSE notify_from(callbacks, raising, i + 1, notify_one(round, callbacks[i], raising))

\* lines 128-132
notify(callbacks, raising) == notify_from(callbacks, raising, 1, NoRound)

\* an iteration that calls the callbacks with the state the symbol had before
\* the answer was stored
NotifiedBeforeStore(symbol, rec, raising, round) ==
    /\ market_data' = DictSet(market_data, symbol, rec)
    /\ last_ws_update' = DictSet(last_ws_update, symbol, ticks + 1)
    /\ ticks' = ticks + 1
    /\ notified' = [data |-> DictGetOpt(market_data, symbol), called |-> round.called,
                    raised |-> raising]
    /\ IF round.escaped
       THEN /\ loop' = [loop EXCEPT !.pc = "sleep5"]
            /\ sweep' = NoSweep
            /\ UNCHANGED active_connections
       ELSE \E o \in ConnNext(BroadcastBegin(loop, active_connections),
                              active_connections, subscribed_symbols) :
              /\ loop' = o.loop
              /\ active_connections' = o.conns
              /\ sweep' = [status |-> o.sweep, start |-> active_connections,
                           attempted |-> o.attempted, failed |-> o.failed,
                           delivered |-> {}, disturbed |-> FALSE, added |-> {},
                           removed |-> {}]
    /\ UNCHANGED <<price_callbacks, handler, stop_call, price_call, wsSubs, wsLife>>
    /\ UNCHANGED notWS

\* lines 116-135 with the outcome round of the callbacks: the state is
\* stored, the callbacks are called and broadcast runs to its first send, or
\* to its end when there is no connection. An exception leaving the
\* callbacks is caught at line 139.
Notified(symbol, rec, raising, round) ==
    /\ market_data' = DictSet(market_data, symbol, rec)
    /\ last_ws_update' = DictSet(last_ws_update, symbol, ticks + 1)
    /\ ticks' = ticks + 1
    /\ notified' = [data |-> Some(rec), called |-> round.called, raised |-> raising]
    /\ IF round.escaped
       THEN /\ loop' = [loop EXCEPT !.pc = "sleep5"]
            /\ sweep' = NoSweep
            /\ UNCHANGED active_connections
       ELSE \E o \in ConnNext(BroadcastBegin(loop, active_connections),
                              active_connections, subscribed_symbols) :
              /\ loop' = o.loop
              /\ active_connections' = o.conns
              /\ sweep' = [status |-> o.sweep, start |-> active_connections,
                           attempted |-> o.attempted, failed |-> o.failed,
                           delivered |-> {}, disturbed |-> FALSE, added |-> {},
                           removed |-> {}]
    /\ UNCHANGED <<price_callbacks, handler, stop_call, price_call, wsSubs, wsLife>>
    /\ UNCHANGED notWS

\* lines 116-135: the callbacks of raising raise
Stored(symbol, rec, raising) ==
    Notified(symbol, rec, raising, notify(price_callbacks, raising))

\* lines 116-122 with the outcome r of building the record
Collected(symbol, r, raising) ==
    IF IsOk(r) THEN Stored(symbol, r[2], raising) ELSE Backoff

\* line 113: get_ticker answers
WSTickerArrives ==
    /\ loop.pc = "ticker"
    /\ ticks < MaxTicks
    /\ \E ticker \in WSTickers, raising \in SUBSET Range(price_callbacks) :
         Collected(loop.symbol, BuildLiveState(loop.symbol, ticker, ticks + 1), raising)

\* lines 159-167 after a send: with the frame l the sweep goes on
Sent(l, delivered) ==
    /\ \E o \in ConnNext(l, active_connections, subscribed_symbols) :
         /\ loop' = o.loop
         /\ active_connections' = o.conns
         /\ sweep' = [sweep EXCEPT !.status = o.sweep, !.attempted = o.attempted,
                                   !.failed = o.failed, !.delivered = delivered]
    /\ UNCHANGED <<price_callbacks, handler, stop_call, price_call, wsData, wsSubs, wsLife>>
    /\ UNCHANGED notWS

\* line 161: send_json returns
WSSendOk == loop.pc = "send" /\ Sent(loop, sweep.delivered \cup {loop.conn})

\* lines 161-164: send_json raises
WSSendFails ==
    /\ loop.pc = "send"
    /\ Sent([loop EXCEPT !.disconnected = @ \cup {loop.conn}], sweep.delivered)

\* lines 73-78: get_latest_price finds no price in market_data and awaits
\* get_ticker
WSPriceCall(s) ==
    /\ price_call.pc = "idle"
    /\ ~(s \in DOMAIN market_data /\ market_data[s].current_price # None)
    /\ binance_client
    /\ price_call' = [pc |-> "ticker", symbol |-> s]
    /\ UNCHANGED <<active_connections, price_callbacks, loop, handler, stop_call, sweep,
                   wsData, wsSubs, wsLife>>
    /\ UNCHANGED notWS

\* lines 79-85: the price is written into the record the symbol has now
PriceStored(s, price) ==
    /\ market_data' = IF s \in DOMAIN market_data
                      THEN [market_data EXCEPT ![s].current_price = Some(price)]
                      ELSE market_data
    /\ price_call' = [price_call EXCEPT !.pc = "idle"]
    /\ UNCHANGED <<active_connections, price_callbacks, loop, handler, stop_call, sweep,
                   last_ws_update, ticks, notified, wsSubs, wsLife>>
    /\ UNCHANGED notWS

WSPriceArrives ==
    /\ price_call.pc = "ticker"
    /\ PriceStored(price_call.symbol, TickerFloat(Ticker("101.00"), "lastPrice")[2])

\* lines 78-79, 88-90: get_ticker or the conversion raises
WSPriceFails ==
    /\ price_call.pc = "ticker"
    /\ price_call' = [price_call EXCEPT !.pc = "idle"]
    /\ UNCHANGED <<active_connections, price_callbacks, loop, handler, stop_call, sweep,
                   wsData, wsSubs, wsLife>>
    /\ UNCHANGED notWS

\* stop() goes on to o: the next close, the close of the client, lines 61-62,
\* or the raise of lines 65-67
Stopped(o, sw) ==
    /\ stop_call' = o.call
    /\ tasks' = IF o.clear THEN <<>> ELSE tasks
    /\ active_connections' = IF o.clear THEN {} ELSE active_connections
    /\ sweep' = IF o.clear /\ active_connections # {}
                THEN DisturbRemove(sw, active_connections) ELSE sw
    /\ UNCHANGED <<price_callbacks, handler, price_call, wsData, wsSubs, binance_client,
                   start_call>>
    /\ UNCHANGED notWS

\* lines 43-53: stop() clears is_running, cancels the tasks of the list that
\* are not done and runs to its first await. The model follows one call.
WSStop ==
    /\ stop_call.pc = "none"
    /\ is_running' = FALSE
    /\ loop' = IF loop.pc \in LivePcs /\ loop.id \in Range(tasks)
               THEN [BroadcastLeft(loop) EXCEPT !.pc = "cancelled"] ELSE loop
    /\ \E o \in StopNext([NoStop EXCEPT !.size0 = Cardinality(active_connections),
                                        !.start = active_connections],
                         active_connections, binance_client) :
         Stopped(o, IF loop.pc = "send" /\ loop.id \in Range(tasks)
                    THEN [sweep EXCEPT !.status = "cancelled"] ELSE sweep)

\* lines 53-55: close() returned or raised
WSStopClosed ==
    /\ stop_call.pc = "closing"
    /\ \E o \in StopNext(stop_call, active_connections, binance_client) : Stopped(o, sweep)
    /\ UNCHANGED <<is_running, loop>>

\* lines 59-63: close_connection() returned
WSStopClientClosed ==
    /\ stop_call.pc = "client"
    /\ Stopped([call |-> [stop_call EXCEPT !.pc = "done"], clear |-> TRUE], sweep)
    /\ UNCHANGED <<is_running, loop>>

\* lines 59, 65-67: close_connection() raises
WSStopClientFails ==
    /\ stop_call.pc = "client"
    /\ stop_call' = [stop_call EXCEPT !.pc = "raised"]
    /\ UNCHANGED <<active_connections, price_callbacks, loop, handler, price_call, sweep,
                   wsData, wsSubs, wsLife>>
    /\ UNCHANGED notWS

\* the clients and callbacks that take part in the life of the loop
LoopConns == {"A"}
LoopCallbacks == {"cb1"}

\* the Connection Registry under the streaming loop
NextRegistry ==
    \/ \E c \in Conns : WSAccept(c)
    \/ \E c \in Conns : WSDisconnect(c)
    \/ \E c \in Conns : WSDisconnectAbsent(c)
    \/ \E symbols \in RegistrySymbolLists : WSSubscribe(symbols)
    \/ WSStart
    \/ WSStartCreated
    \/ WSStartFails
    \/ WSTaskBegin
    \/ WSSleepDone
    \/ WSTickerFails
    \/ WSTickerArrives
    \/ WSSendOk
    \/ WSSendFails

\* the Streaming Aggregator and the callers of subscribe_symbols,
\* get_latest_price and stop, no client connected
NextFeed ==
    \/ \E symbols \in SymbolLists : WSSubscribe(symbols)
    \/ WSStart
    \/ WSStartCreated
    \/ WSStartFails
    \/ WSTaskBegin
    \/ WSSleepDone
    \/ WSTickerFails
    \/ WSTickerArrives
    \/ \E s \in Pairs : WSPriceCall(s)
    \/ WSPriceArrives
    \/ WSPriceFails
    \/ WSStop
    \/ WSStopClientClosed
    \/ WSStopClientFails

\* the streaming loop and the callbacks
NextCallbacks ==
    \/ \E c \in LoopConns : WSAccept(c)
    \/ \E cb \in Callbacks : WSAddCallback(cb)
    \/ \E cb \in Callbacks : WSRemoveCallback(cb)
    \/ \E symbols \in SymbolLists : WSSubscribe(symbols)
    \/ WSStart
    \/ WSStartCreated
    \/ WSStartFails
    \/ WSTaskBegin
    \/ WSSleepDone
    \/ WSTickerFails
    \/ WSTickerArrives
    \/ WSSendOk
    \/ WSSendFails

\* stop() of the Streaming Aggregator with clients connected
NextShutdown ==
    \/ \E c \in Conns : WSAccept(c)
    \/ \E c \in Conns : WSDisconnect(c)
    \/ \E c \in Conns : WSDisconnectAbsent(c)
    \/ WSStart
    \/ WSStartCreated
    \/ WSStartFails
    \/ WSTaskBegin
    \/ WSSleepDone
    \/ WSStop
    \/ WSStopClosed
    \/ WSStopClientClosed
    \/ WSStopClientFails

\* the streaming loop from start() to stop() with every source of a failure
\* inside an iteration: the fetch, the record, a callback, the broadcast, a
\* change of the subscriptions or of the connections
NextLoop ==
    \/ \E c \in LoopConns : WSAccept(c)
    \/ \E c \in LoopConns : WSDisconnect(c)
    \/ \E cb \in LoopCallbacks : WSAddCallback(cb)
    \/ \E symbols \in SymbolLists : WSSubscribe(symbols)
    \/ WSStart
    \/ WSStartCreated
    \/ WSStartFails
    \/ WSTaskBegin
    \/ WSSleepDone
    \/ WSTickerFails
    \/ WSTickerArrives
    \/ WSSendOk
    \/ WSSendFails
    \/ WSStop
    \/ WSStopClosed
    \/ WSStopClientClosed
    \/ WSStopClientFails

(***************************************************************************)
(* The derivations of the Snapshot Fetcher, called on their own            *)
(***************************************************************************)
\* the closes of the candle series
CloseTexts == {"98.00", "99.00", "100.00", "101.00", "102.00"}

\* n candles that close at a up to the k-th and at b after it
StepSeries(n, a, b, k) == [i \in 1..n |-> Candle(IF i <= k THEN a ELSE b)]

\* n candles whose closes go through a, b, c again and again
CycleSeries(n, a, b, c) ==
    [i \in 1..n |-> Candle(IF i % 3 = 1 THEN a ELSE IF i % 3 = 2 THEN b ELSE c)]

\* the klines argument of the derivations
CandleInputs ==
    {StepSeries(n, a, b, k) : n \in 0..MaxCandles, a \in CloseTexts, b \in CloseTexts,
                              k \in 0..MaxCandles}
    \cup {CycleSeries(n, a, b, c) : n \in 0..MaxCandles, a \in CloseTexts,
                                    b \in CloseTexts, c \in CloseTexts}

\* line 54: self._calculate_trend(klines)
DeriveTrend ==
    /\ derivation.op = "none"
    /\ derivation' = [derivation EXCEPT !.op = "trend",
                                        !.ret = Some(calculate_trend(derivation.klines))]
    /\ UNCHANGED <<cached_data, fpc, fsym, fticker, now, lastFetch, lastGood>>
    /\ UNCHANGED <<botVars, orchVars, wsVars>>

\* line 56: self._calculate_indicators(klines)
DeriveIndicators ==
    /\ derivation.op = "none"
    /\ derivation' = [derivation EXCEPT !.op = "indicators",
                                        !.ret = Some(calculate_indicators(derivation.klines))]
    /\ UNCHANGED <<cached_data, fpc, fsym, fticker, now, lastFetch, lastGood>>
    /\ UNCHANGED <<botVars, orchVars, wsVars>>

NextDerive ==
    \/ DeriveTrend
    \/ DeriveIndicators

Init == InitBot /\ InitMD /\ InitOrch /\ InitWS

SpecBot == Init /\ [][NextBot]_vars
\* the Snapshot Fetcher does not depend on the Bot Registry variant
InitMock == Init /\ mock_mode = TRUE
SpecMD == InitMock /\ [][NextMD]_vars
SpecOrch == Init /\ [][NextOrch]_vars
SpecRegistry == Init /\ [][NextRegistry]_vars
SpecFeed == Init /\ [][NextFeed]_vars
SpecCallbacks == Init /\ [][NextCallbacks]_vars
SpecShutdown == Init /\ [][NextShutdown]_vars
SpecLoop == Init /\ [][NextLoop]_vars
\* the derivations do not depend on the rest of the state
InitDerive ==
    /\ InitBot /\ mock_mode = TRUE
    /\ cached_data = <<>>
    /\ fpc = [f \in Fetchers |-> "idle"]
    /\ fsym = [f \in Fetchers |-> None]
    /\ fticker = [f \in Fetchers |-> None]
    /\ now = 1
    /\ lastFetch = [outcome |-> "none"]
    /\ lastGood = [s \in Pairs |-> None]
    /\ derivation \in {NoDerivation(klines) : klines \in CandleInputs}
    /\ InitOrch
    /\ InitWS
SpecDerive == InitDerive /\ [][NextDerive]_vars

(***************************************************************************)
(* Claims about the Bot Registry (checked under SpecBot)                   *)
(***************************************************************************)
IsApply == lastCall.op = "apply"
ExplicitlyNoTrade(rec) == "should_trade" \in DOMAIN rec /\ rec.should_trade = FALSE

\* C5: on the mock Bot Registry, apply_recommendation with should_trade false
\* returns false and appends no TradeRecord: every history, and so the
\* total_trades get_stats reports, is the same before and after the call.
C5_DeclinedAppendsNothing ==
    (mock_mode /\ IsApply /\ ExplicitlyNoTrade(lastCall.rec)) =>
        /\ lastCall.ret = FALSE
        /\ mock_trades = lastCall.before
        /\ MockBotManager_get_bot_stats(mock_trades, lastCall.bot_id)
             = MockBotManager_get_bot_stats(lastCall.before, lastCall.bot_id)

\* C6: for both variants apply_recommendation returns false (and raises
\* nothing) whenever should_trade is false, or take_profit or stop_loss is
\* missing from the recommendation.
C6_DeclinedReturnsFalse ==
    (IsApply /\ (\/ ExplicitlyNoTrade(lastCall.rec)
                 \/ "take_profit" \notin DOMAIN lastCall.rec
                 \/ "stop_loss" \notin DOMAIN lastCall.rec)) =>
        lastCall.ret = FALSE

\* the same statement for the real variant alone
C6_RealDeclinedReturnsFalse == ~mock_mode => C6_DeclinedReturnsFalse

\* C7: on the mock Bot Registry the first create_bot returns the base id and
\* every later create_bot returns an id strictly greater than all ids returned
\* before it, so no two calls return the same id.
C7_IdsStrictlyIncreasing ==
    mock_mode =>
        \A i \in 1..Len(created) :
            /\ created[i] # None
            /\ (i = 1 => created[i][1].id = MockBaseId)
            /\ \A j \in 1..(i - 1) : created[j][1].id < created[i][1].id

C7_Witness ==
    /\ mock_mode
    /\ Len(created) >= 3
    /\ created[1][1].pair = created[2][1].pair
    /\ created[2][1].pair # created[3][1].pair

\* C8: on the mock Bot Registry get_stats(bot_id) returns total_trades equal
\* to the length of that bot's history and last_trade equal to its most
\* recently appended record (none for an empty history); right after a trade
\* was applied to a bot with no history it reports total_trades = 1 and a
\* last_trade carrying that recommendation's timestamp, price, direction and
\* confidence.
C8_StatsFromHistory ==
    /\ (mock_mode /\ lastCall.op = "stats") =>
          LET h == Trades(mock_trades, lastCall.bot_id) IN
          /\ lastCall.ret # None
          /\ lastCall.ret[1].total_trades = Len(h)
          /\ lastCall.ret[1].last_trade = IF h = <<>> THEN None ELSE Some(h[Len(h)])
    /\ (mock_mode /\ IsApply /\ lastCall.ret = TRUE) =>
          LET st == MockBotManager_get_bot_stats(mock_trades, lastCall.bot_id)[1]
              n == Len(Trades(lastCall.before, lastCall.bot_id)) IN
          /\ st.total_trades = n + 1
          /\ st.last_trade # None
          /\ st.last_trade[1].timestamp = Some(lastCall.rec.timestamp)
          /\ st.last_trade[1].price = Some(lastCall.rec.price)
          /\ st.last_trade[1].direction = Some(lastCall.rec.direction)
          /\ st.last_trade[1].confidence = Some(lastCall.rec.confidence)

C8_Witness ==
    /\ mock_mode
    /\ lastCall.op = "stats"
    /\ lastCall.ret[1].total_trades = 2
    /\ lastCall.ret[1].last_trade
         # Some(Trades(mock_trades, lastCall.bot_id)[1])

\* C9: active_bots holds at most one bot id per pair; after a create_bot that
\* returned a handle the pair is mapped to that handle's id, and a create_bot
\* that returned none leaves the mapping as it was.
C9_OneBotPerPair ==
    /\ \A e1 \in active_bots : \A e2 \in active_bots : e1[1] = e2[1] => e1 = e2
    /\ lastCall.op = "create" =>
          IF lastCall.ret # None
          THEN ItemGet(active_bots, lastCall.pair) = Some(lastCall.ret[1].id)
          ELSE active_bots = lastCall.before

C9_Witness ==
    /\ lastCall.op = "create"
    /\ lastCall.ret # None
    /\ ItemGet(lastCall.before, lastCall.pair) # None
    /\ ItemGet(lastCall.before, lastCall.pair) # Some(lastCall.ret[1].id)

C9_WitnessFailedCreate ==
    /\ ~mock_mode
    /\ lastCall.op = "create"
    /\ lastCall.ret = None
    /\ lastCall.before # {}

(***************************************************************************)
(* Claims about the Snapshot Fetcher (checked under SpecMD)                *)
(***************************************************************************)
\* C3: a fetch that fails returns the snapshot the cache holds for the
\* symbol, unchanged, when there is one, and "no data" (None) when there is
\* none; it returns, it does not raise.
C3_FailedFetchServesCache ==
    lastFetch.outcome = "failed" =>
        IF lastFetch.symbol \in DOMAIN lastFetch.before
        THEN lastFetch.ret = Some(lastFetch.before[lastFetch.symbol])
        ELSE lastFetch.ret = None

C3_Witness ==
    /\ lastFetch.outcome = "failed"
    /\ lastFetch.ret # None
    /\ lastFetch.ret[1].symbol = lastFetch.symbol
    /\ \E s \in Pairs : s # lastFetch.symbol /\ s \in DOMAIN cached_data

\* C4: the cache entry of every symbol is the snapshot returned by the most
\* recently completed successful fetch of that symbol (none if there was
\* none); a fetch that failed or was cancelled leaves the whole cache as it
\* was, and a successful fetch changes no other symbol's entry.
C4_CacheIsLastSuccess ==
    /\ \A s \in Pairs : DictGetOpt(cached_data, s) = lastGood[s]
    /\ lastFetch.outcome \in {"failed", "cancelled"} => cached_data = lastFetch.before
    /\ lastFetch.outcome = "ok" =>
          \A s \in Pairs \ {lastFetch.symbol} :
              DictGetOpt(cached_data, s) = DictGetOpt(lastFetch.before, s)

\* two calls for one symbol overlap: one wrote a snapshot that differs from the
\* entry it replaced while the other is still waiting for its candles
C4_Witness ==
    /\ lastFetch.outcome = "ok"
    /\ lastFetch.symbol \in DOMAIN lastFetch.before
    /\ lastFetch.before[lastFetch.symbol].trend # cached_data[lastFetch.symbol].trend
    /\ \E f \in Fetchers : fpc[f] = "klines" /\ fsym[f] = Some(lastFetch.symbol)

(***************************************************************************)
(* Claims about the Orchestrator (checked under SpecOrch)                  *)
(***************************************************************************)
AllStepsSucceeded(step) ==
    /\ step.snapshot
    /\ step.analysis = "ok"
    /\ step.bot
    /\ step.applied = Some(TRUE)
    /\ step.stats = Some(TRUE)

StatusRecordsOf(pair) == {j \in 1..Len(statusLog) : statusLog[j].pair = pair}

\* C2: in every iteration of the trading loop the configured pairs are
\* attempted once each, in order: whatever the steps of a pair did (no
\* snapshot, the analysis raising or returning nothing, no bot, the apply
\* declined, the stats missing) the next pair is attempted, the iteration
\* reaches its sleep only after the last pair, and every pair whose steps all
\* succeeded has its status record.
C2_FailureContainedAtPair ==
    /\ Len(steps) <= Len(TRADING_PAIRS)
    /\ \A i \in 1..Len(steps) : steps[i].pair = TRADING_PAIRS[i]
    /\ opc \in {"fetch", "analyze"} => oidx = Len(steps) + 1
    /\ opc \in {"sleep", "ended"} => Len(steps) = Len(TRADING_PAIRS)
    /\ \A i \in 1..Len(steps) :
          AllStepsSucceeded(steps[i]) => Cardinality(StatusRecordsOf(steps[i].pair)) = 1

\* the first pair had no snapshot, the second went through and has its record
C2_Witness ==
    /\ Len(steps) = 2
    /\ ~steps[1].snapshot
    /\ AllStepsSucceeded(steps[2])
    /\ Len(statusLog) = 1
    /\ statusLog[1].pair = TRADING_PAIRS[2]

(***************************************************************************)
(* Claims on the Connection Registry and the Streaming Aggregator          *)
(***************************************************************************)
\* C1: in a broadcast sweep during which no other task changes the live set,
\* a send is attempted on every connection of the set whatever sends failed
\* before it, the sweep is never cut short, and at its end exactly the
\* connections whose send failed have left the live set: the others are
\* still registered and their send of the payload returned.
C1_SweepPrunesExactlyFailures ==
    [][(sweep.status = "running" /\ ~sweep.disturbed) =>
         /\ sweep'.status # "aborted"
         /\ sweep'.status = "completed" =>
              /\ sweep'.attempted = sweep.start
              /\ sweep'.failed \subseteq sweep.start
              /\ active_connections' = sweep.start \ sweep'.failed
              /\ sweep'.delivered = sweep.start \ sweep'.failed]_vars

\* a sweep over {A, B, C} has ended undisturbed, the send to B failed first
C1_Witness ==
    /\ sweep.status = "completed"
    /\ ~sweep.disturbed
    /\ sweep.start = {"A", "B", "C"}
    /\ sweep.failed = {"B"}
    /\ sweep.delivered = {"A", "C"}
    /\ active_connections = {"A", "C"}

\* C10: a call of subscribe_symbols leaves every symbol that was subscribed
\* before it subscribed and leaves its live state record as it was, and the
\* subscribed set becomes the old set plus the symbols of the list.
C10_ResubscribeKeepsState ==
    [][subscribeCalls' # subscribeCalls =>
         /\ subscribed_symbols' = subscribed_symbols \cup Range(lastSubscribe'.symbols)
         /\ \A s \in subscribed_symbols : market_data'[s] = market_data[s]]_vars

\* a symbol was subscribed again after the loop had populated its record
C10_Witness ==
    /\ lastSubscribe.populated # {}
    /\ \A s \in lastSubscribe.populated : market_data[s].timestamp # None

\* C11: a failed ticker fetch for one symbol, and the backoff after it, costs
\* no other subscribed symbol its fetch of that round: when the fetch of a
\* symbol fails, no subscribed symbol is left unfetched behind it.
C11_FetchFailureSkipsNoOtherSymbol ==
    [][(loop.pc = "ticker" /\ loop'.pc = "sleep5") =>
         subscribed_symbols \subseteq loop.sym_seen]_vars

\* C12: when a sweep during which connections are accepted, and none is
\* removed, ends, a send has been attempted on exactly the connections that
\* were in the live set at its start: on each of them, and on no connection
\* accepted meanwhile.
C12_SweepIteratesSnapshot ==
    [][(sweep.status = "running" /\ sweep.removed = {} /\ sweep'.status # "running") =>
         sweep'.attempted = sweep.start]_vars

\* C13: when a sweep during which connections are removed by their connect
\* handlers, and none is accepted, ends, a send has been attempted on every
\* connection of its start that was not removed, and no connection whose
\* send failed is left in the live set.
C13_RemovalDoesNotDisturbSweep ==
    [][(sweep.status = "running" /\ sweep.added = {} /\ sweep'.status # "running") =>
         /\ sweep.start \ sweep.removed \subseteq sweep'.attempted
         /\ active_connections' \cap sweep'.failed = {}]_vars

\* C14: no connect handler ends in the KeyError of removing a websocket that
\* is no longer in the live set.
C14_DisconnectIsIdempotent == \A c \in Conns : handler[c] # "keyerror"

\* C15: when stop() ends, by returning or by raising, the task list and the
\* live set are both empty, whatever failed on the way. (The running flag is
\* cleared and the tasks are cancelled at lines 43-48, before the first step
\* that can fail.)
C15_StopAlwaysClears ==
    [][(stop_call.pc \notin {"done", "raised"} /\ stop_call'.pc \in {"done", "raised"}) =>
         /\ tasks' = <<>>
         /\ active_connections' = {}]_vars

\* C16: when stop() leaves its loop over the connections, close has been
\* attempted on every connection that was in the live set when stop() was
\* called and is in it still.
C16_CloseAttemptedOnAll ==
    [][(stop_call.pc \in {"none", "closing"} /\ stop_call'.pc \notin {"none", "closing"}) =>
         stop_call'.start \cap active_connections \subseteq stop_call'.seen]_vars


(***************************************************************************)
(* The streaming loop ends only on stop()                                   *)
(***************************************************************************)
\* C17: as long as stop() has not been called, no step ends the streaming
\* loop: whatever fails in an iteration the loop is still alive afterwards,
\* and when the failure backoff is over it starts another iteration with a
\* new pass over the subscriptions.
C17_LoopEndsOnlyOnStop ==
    [][stop_call'.pc = "none" =>
         /\ (loop.pc \in LivePcs => loop'.pc \in LivePcs)
         /\ (loop.pc = "sleep5" /\ loop'.pc # "sleep5") =>
              /\ loop'.pc \in {"ticker", "sleep1"}
              /\ loop'.sym_seen \subseteq {loop'.symbol}]_vars

\* stop() has not been called and the loop waits the backoff after a change
\* of the connections ended its broadcast
C17_Witness ==
    /\ stop_call.pc = "none"
    /\ is_running
    /\ loop.pc = "sleep5"
    /\ sweep.status = "aborted"


(***************************************************************************)
(* The callbacks of an iteration                                            *)
(***************************************************************************)
\* C18: in an iteration that stores a live state every callback of the list
\* is called, in the order of the list, with the state just stored, whichever
\* of them raise; the broadcast of that state is entered with the live set,
\* and the loop is in the failure backoff afterwards only when the
\* subscriptions changed during the iteration.
C18_CallbackFailureIsContained ==
    [][ticks' # ticks =>
         /\ notified'.called = price_callbacks
         /\ notified'.data = Some(market_data'[loop.symbol])
         /\ sweep'.status \in {"running", "completed"}
         /\ sweep'.start = active_connections
         /\ (loop'.pc = "sleep5" => Cardinality(subscribed_symbols) # loop.sym_size0)]_vars

\* the first of two callbacks raised, the second was called after it, and
\* the loop is in the send of the broadcast to a connection
C18_Witness ==
    /\ Len(notified.called) = 2
    /\ notified.called = price_callbacks
    /\ notified.called[1] \in notified.raised
    /\ notified.called[2] \notin notified.raised
    /\ loop.pc = "send"
    /\ sweep.status = "running"


(***************************************************************************)
(* The real Bot Registry variant and its backend                            *)
(***************************************************************************)
\* the backend took the create request: the account was there and the
\* request returned a bot with an id and no error
CreateAccepted ==
    /\ lastCall.account = "ok"
    /\ lastCall.resp.kind = "ok"
    /\ "id" \in DOMAIN lastCall.resp.bot

\* C19: on the real variant every call returns a value. create_bot returns
\* the bot of the backend when the backend took the request and none in every
\* other case (an error reported, a call that raised, no account), leaving
\* the mapping as it was; apply_ai_recommendations returns true when
\* update_bot_settings reported success and false when it reported failure
\* or raised; get_bot_stats returns none when the backend reported an error
\* or the request raised.
C19_BackendFailureBecomesNone ==
    ~mock_mode =>
        /\ lastCall.op = "create" =>
             IF CreateAccepted
             THEN lastCall.ret = Some(lastCall.resp.bot)
             ELSE lastCall.ret = None /\ active_bots = lastCall.before
        /\ (IsApply /\ lastCall.sent # None) =>
             lastCall.ret = (lastCall.update = "true")
        /\ (IsApply /\ lastCall.sent = None) => lastCall.ret = FALSE
        /\ lastCall.op = "stats" =>
             IF lastCall.resp.kind = "ok"
             THEN lastCall.ret = Some(lastCall.resp.stats)
             ELSE lastCall.ret = None

\* the request to the backend raised in apply_ai_recommendations after a
\* create_bot that the backend took
C19_Witness ==
    /\ ~mock_mode
    /\ IsApply
    /\ lastCall.sent # None
    /\ lastCall.update = "raises"
    /\ lastCall.ret = FALSE
    /\ active_bots # {}


\* the recommendation of the last call says to trade and carries a
\* take_profit and a stop_loss that are not zero
Tradable(rec) ==
    /\ "should_trade" \in DOMAIN rec /\ rec.should_trade = TRUE
    /\ "take_profit" \in DOMAIN rec /\ rec.take_profit # 0
    /\ "stop_loss" \in DOMAIN rec /\ rec.stop_loss # 0

IsPrefix(s, t) == Len(s) <= Len(t) /\ SubSeq(t, 1, Len(s)) = s

\* C21: on the mock variant every step leaves each record of each history in
\* its place (a history only grows at its end), and a call of
\* apply_ai_recommendations whose recommendation does not say should_trade
\* false returns true, adds exactly one record, made from that
\* recommendation, to the end of the history of its bot and leaves the
\* history of every other bot as it was.
C21_HistoriesAppendOnly ==
    [][mock_mode =>
         /\ \A b \in DOMAIN mock_trades :
              b \in DOMAIN mock_trades' /\ IsPrefix(mock_trades[b], mock_trades'[b])
         /\ (applied' # applied /\ ~ExplicitlyNoTrade(lastCall'.rec)) =>
              /\ lastCall'.ret = TRUE
              /\ Trades(mock_trades', lastCall'.bot_id)
                   = Append(Trades(mock_trades, lastCall'.bot_id),
                            MockTradeRecord(lastCall'.rec))
              /\ \A b \in DOMAIN mock_trades' \ {lastCall'.bot_id} :
                   b \in DOMAIN mock_trades /\ mock_trades'[b] = mock_trades[b]]_vars

\* a recommendation without should_trade was applied to a bot that had a
\* record already
C21_Witness ==
    /\ mock_mode
    /\ IsApply
    /\ "should_trade" \notin DOMAIN lastCall.rec
    /\ Len(Trades(lastCall.before, lastCall.bot_id)) = 1
    /\ Len(Trades(mock_trades, lastCall.bot_id)) = 2
    /\ lastCall.ret = TRUE


(***************************************************************************)
(* The derivations                                                          *)
(***************************************************************************)
\* the close of the i-th candle of the series of the state, as a number
CloseAt(i) == FloatText[CloseOf(derivation.klines[i])]

\* the closes from the i-th to the j-th candle
ClosesFrom(i, j) == [x \in 1..(j - i + 1) |-> CloseAt(i + x - 1)]

\* the trend of a change from first to last, told without a division: the
\* change is above 1% when 100 (last - first) > first
TrendOfChange(first, last) ==
    IF RLt(first, RMul(RInt(100), RSub(last, first))) THEN "bullish"
    ELSE IF RLt(RMul(RInt(100), RSub(last, first)), RSub(RInt(0), first)) THEN "bearish"
    ELSE "neutral"

\* C22: the trend of a series of fewer than 2 candles is neutral; of a longer
\* one it is that of the change from the first to the last of its last 6
\* closes (of all its closes when it has fewer than 6): bullish above +1%,
\* bearish below -1%, neutral from -1% to +1%, both included.
C22_TrendOfLastSix ==
    derivation.op = "trend" =>
        LET n == Len(derivation.klines) IN
        derivation.ret =
            Some(Ok(IF n < 2 THEN "neutral"
                    ELSE TrendOfChange(CloseAt(IF n < 6 THEN 1 ELSE n - 5), CloseAt(n))))

\* the trend of seven candles whose first close is 2% below the others and
\* whose last six closes are equal is neutral
C22_Witness ==
    /\ derivation.op = "trend"
    /\ derivation.klines = StepSeries(7, "98.00", "100.00", 1)
    /\ derivation.ret = Some(Ok("neutral"))


\* the mean of the closes from the i-th to the j-th candle
MeanClose(i, j) == RDiv(RSum(ClosesFrom(i, j)), RInt(j - i + 1))

\* the indicators with the simple moving average sma
IndicatorsWith(sma, ret) ==
    /\ IsOk(ret)
    /\ ret[2].sma_20 = sma
    /\ ret[2].price_vs_sma =
         RMul(RSub(RDiv(CloseAt(Len(derivation.klines)), sma), RInt(1)), RInt(100))

\* C23: the indicators of a series of fewer than 14 candles are the defaults
\* sma_20 0.0, rsi_14 50.0, price_vs_sma 0.0; those of a longer series have
\* as sma_20 the mean of its last 20 closes, or of all its closes when it has
\* fewer than 20, and as price_vs_sma (last close / sma_20 - 1) x 100.
C23_SmaIsMeanOfAvailable ==
    derivation.op = "indicators" =>
        LET n == Len(derivation.klines) IN
        IF n < 14
        THEN derivation.ret =
                Some(Ok([sma_20 |-> RInt(0), rsi_14 |-> RInt(50), price_vs_sma |-> RInt(0)]))
        ELSE IndicatorsWith(MeanClose(IF n < 20 THEN 1 ELSE n - 19, n), derivation.ret[1])

\* the same for the series of fewer than 14 and of at least 20 candles only
C23_SmaFromTwentyCloses ==
    (derivation.op = "indicators" /\ Len(derivation.klines) \notin 14..19) =>
        C23_SmaIsMeanOfAvailable


\* no close among the last 14 deltas of the series (all its deltas when it
\* has fewer) is lower than the close before it
NoLossInWindow ==
    LET n == Len(derivation.klines) IN
    \A i \in (IF n < 15 THEN 2 ELSE n - 13)..n : ~RLt(CloseAt(i), CloseAt(i - 1))

\* C24: for a series of at least 14 candles rsi_14 is a number from 0 to 100,
\* and it is exactly 100 when no close among the deltas of its window is
\* lower than the close before it.
C24_RsiRangeAndNoLoss ==
    (derivation.op = "indicators" /\ Len(derivation.klines) >= 14) =>
        /\ IsOk(derivation.ret[1])
        /\ ~RLt(derivation.ret[1][2].rsi_14, RInt(0))
        /\ ~RLt(RInt(100), derivation.ret[1][2].rsi_14)
        /\ NoLossInWindow => derivation.ret[1][2].rsi_14 = RInt(100)

\* the same for the series of at least 15 candles, which have 14 deltas
C24_RsiWithFourteenDeltas ==
    (derivation.op = "indicators" /\ Len(derivation.klines) >= 15) =>
        C24_RsiRangeAndNoLoss


(***************************************************************************)
(* The handle of the mock Bot Registry                                      *)
(***************************************************************************)
\* C25: create_bot(pair) on the mock variant returns a handle that has an id,
\* whose pair is the pair asked for and whose status is "enabled".
C25_MockHandleIsEnabled ==
    (mock_mode /\ lastCall.op = "create") =>
        /\ lastCall.ret # None
        /\ "id" \in DOMAIN lastCall.ret[1]
        /\ "pair" \in DOMAIN lastCall.ret[1]
        /\ lastCall.ret[1].pair = lastCall.pair
        /\ "status" \in DOMAIN lastCall.ret[1]
        /\ lastCall.ret[1].status = "enabled"

\* the same without the status
C25_MockHandleHasIdAndPair ==
    (mock_mode /\ lastCall.op = "create") =>
        /\ lastCall.ret # None
        /\ "id" \in DOMAIN lastCall.ret[1]
        /\ "pair" \in DOMAIN lastCall.ret[1]
        /\ lastCall.ret[1].pair = lastCall.pair


(***************************************************************************)
(* The streaming loop after stop()                                          *)
(***************************************************************************)
\* C26: once stop() has been called, and as long as start() is not called
\* again, the streaming loop does nothing more: it is at no fetch, no send
\* and no sleep, no answer is stored as a live state, no round of callbacks
\* is made and no broadcast is under way.
C26_NoCycleAfterStop ==
    [][(stop_call'.pc # "none" /\ ~is_running') =>
         /\ loop'.pc \in {"none", "created", "cancelled", "exited"}
         /\ ticks' = ticks
         /\ last_ws_update' = last_ws_update
         /\ notified' = notified
         /\ sweep'.status # "running"
         /\ sweep'.attempted = sweep.attempted]_vars

\* stop() was called and ended with the loop cancelled after it had stored
\* an answer and could have stored more
C26_Witness ==
    /\ stop_call.pc = "done"
    /\ ~is_running
    /\ loop.pc = "cancelled"
    /\ ticks >= 1
    /\ ticks < MaxTicks


(***************************************************************************)
(* The order of the steps of an iteration                                   *)
(***************************************************************************)
\* C27: a live state is stored only when the fetch of its symbol answers;
\* in the same step the callbacks are called with the state just stored and
\* the broadcast of that state is entered; whenever a send of the broadcast
\* is under way the state it carries is the live state of the symbol, stored
\* by the latest answer; and the 1-second wait begins only when a broadcast
\* has run to its end, or at once when no symbol is subscribed.
C27_StoreThenNotifyThenBroadcast ==
    [][/\ ticks' # ticks =>
            /\ loop.pc = "ticker"
            /\ market_data'[loop.symbol].timestamp = Some(ticks')
            /\ notified'.data = Some(market_data'[loop.symbol])
            /\ sweep'.status \in {"running", "completed"}
            /\ loop'.pc = "send" => loop'.symbol = loop.symbol
       /\ loop'.pc = "send" =>
            /\ loop'.symbol \in DOMAIN market_data'
            /\ market_data'[loop'.symbol].timestamp = Some(ticks')
            /\ last_ws_update'[loop'.symbol] = ticks'
            /\ notified'.data # None
            /\ notified'.data[1].timestamp = Some(ticks')
       /\ (loop'.pc = "sleep1" /\ loop.pc # "sleep1") =>
            \/ sweep'.status = "completed"
            \/ loop.pc \in {"created", "sleep5"} /\ subscribed_symbols = {}]_vars

\* the broadcast of the second answer is in a send after a callback was
\* called with that answer
C27_Witness ==
    /\ loop.pc = "send"
    /\ ticks = 2
    /\ notified.called # <<>>
    /\ notified.data = Some(market_data[loop.symbol])


(***************************************************************************)
(* The steps of a pair in the trading loop                                  *)
(***************************************************************************)
\* C28: in every step of a pair the recommendation was applied only with a
\* snapshot, a recommendation and a bot of the pair in the registry; the
\* stats were asked for only after an apply that returned true; and a status
\* record of the pair exists only after such an apply and stats that were
\* there. A step with one of them missing is over like any other.
C28_ApplyAndStatusGuarded ==
    /\ \A i \in 1..Len(steps) :
          /\ steps[i].applied # None =>
                steps[i].snapshot /\ steps[i].analysis = "ok" /\ steps[i].bot
          /\ steps[i].stats # None => steps[i].applied = Some(TRUE)
          /\ StatusRecordsOf(steps[i].pair) # {} =>
                steps[i].applied = Some(TRUE) /\ steps[i].stats = Some(TRUE)
    /\ \A j \in 1..Len(statusLog) :
          \E i \in 1..Len(steps) : steps[i].pair = statusLog[j].pair

\* the first pair has no bot in the registry, the apply of the second
\* returned false: no stats, no status record, and the iteration is at its
\* sleep
C28_Witness ==
    /\ Len(steps) = 2
    /\ steps[1].snapshot /\ steps[1].analysis = "ok" /\ ~steps[1].bot
    /\ steps[1].applied = None
    /\ steps[2].applied = Some(FALSE)
    /\ steps[2].stats = None
    /\ statusLog = <<>>
    /\ opc = "sleep"


(***************************************************************************)
(* The cache is written whole                                              *)
(***************************************************************************)
SnapshotKeys ==
    {"symbol", "current_price", "price_change_24h", "volume_24h", "timestamp",
     "trend", "volatility", "indicators", "high_24h", "low_24h"}

\* C29: a call of get_market_data that ends by a failure or by cancellation,
\* wherever it was suspended, leaves the cache as it was; the cache changes
\* only in the step in which a call succeeds, and then by the one entry of
\* its symbol, which is the snapshot the call returns, stamped with the time
\* of that call; so every entry a reader finds in any state has every field
\* of a snapshot and is the snapshot of its symbol.
C29_CacheWrittenWhole ==
    [][/\ \A f \in Fetchers :
            (fpc[f] # "idle" /\ fpc'[f] = "idle" /\ lastFetch'.outcome # "ok")
                => cached_data' = cached_data
       /\ cached_data' # cached_data =>
            /\ lastFetch'.outcome = "ok"
            /\ lastFetch'.ret # None
            /\ lastFetch'.ret[1].timestamp = now
            /\ cached_data' = (lastFetch'.symbol :> lastFetch'.ret[1]) @@ cached_data
       /\ \A s \in DOMAIN cached_data' :
            /\ DOMAIN cached_data'[s] = SnapshotKeys
            /\ cached_data'[s].symbol = s]_vars

\* a call for a symbol that has an entry was cancelled and the entry is as it
\* was, while the other task's call for the same symbol holds its ticker and
\* waits for its candles
C29_Witness ==
    /\ lastFetch.outcome = "cancelled"
    /\ lastFetch.symbol \in DOMAIN cached_data
    /\ cached_data = lastFetch.before
    /\ \E f \in Fetchers :
          /\ fpc[f] = "klines"
          /\ fsym[f] = Some(lastFetch.symbol)
          /\ fticker[f] # None


(***************************************************************************)
(* The trading loop and stop()                                             *)
(***************************************************************************)
\* the cycle that is over processed every configured pair, in order
CycleProcessedAll ==
    /\ Len(steps) = Len(TRADING_PAIRS)
    /\ \A i \in 1..Len(steps) : steps[i].pair = TRADING_PAIRS[i]

\* run() is over
RunOver == opc \in {"ended", "cancelled"}

\* C30: the loop of run() ends only after stop() was requested; a cycle
\* after the first begins only when the one before has processed every
\* configured pair; once stop() has been requested the running flag is false
\* and stays false, and no cycle begins, also when market_data.stop() raised.
C30_RepeatsUntilStopped ==
    [][/\ (~RunOver /\ RunOver') => stopping' # "no"
       /\ (cycle' # cycle /\ cycle >= 1) => CycleProcessedAll
       /\ stopping' # "no" => ~bot_is_running'
       /\ stopping # "no" => cycle' = cycle]_vars

\* C30, for a stop() requested once run() has executed its first statement:
\* the flag is false from the request on and no cycle begins after it.
C30_StopOfStartedLoop ==
    [][/\ (~RunOver /\ RunOver') => stopping' # "no"
       /\ (cycle' # cycle /\ cycle >= 1) => CycleProcessedAll
       /\ (stopping = "no" /\ stopping' # "no") => ~bot_is_running'
       /\ (stopping # "no" /\ cycle >= 1 /\ ~bot_is_running) =>
             cycle' = cycle /\ ~bot_is_running']_vars


(***************************************************************************)
(* The live state records are replaced whole                               *)
(***************************************************************************)
LiveStateKeys ==
    {"symbol", "current_price", "price_change_24h", "volume_24h", "timestamp"}

\* the record rec of symbol s is the one subscribe_symbols creates, or has
\* every field of an iteration's record with a price and a timestamp
EmptyOrComplete(s, rec) ==
    \/ rec = EmptyState(s)
    \/ /\ DOMAIN rec = LiveStateKeys
       /\ rec.symbol = s
       /\ rec.current_price # None
       /\ rec.timestamp # None

\* in this step the record of s changes, and not by the loop storing the
\* record of the tick it has just fetched
FieldWritten(s) ==
    /\ s \in DOMAIN market_data
    /\ s \in DOMAIN market_data'
    /\ market_data'[s] # market_data[s]
    /\ ~(/\ loop.pc = "ticker"
         /\ loop.symbol = s
         /\ ticks' = ticks + 1
         /\ notified'.data = Some(market_data'[s])
         /\ market_data'[s].timestamp = Some(ticks'))

\* C31: in every state each live state record is the empty record of
\* subscribe or a complete record of one iteration of the loop, and a record
\* that exists changes only by the loop replacing it with the record of the
\* tick it fetched: no step writes a field of an existing record.
C31_LiveStateReplacedWhole ==
    [][\A s \in DOMAIN market_data' :
          /\ EmptyOrComplete(s, market_data'[s])
          /\ ~FieldWritten(s)]_vars

\* C31, for every step that is not the end of a latest-price lookup:
\* subscribe and the loop store whole records only.
C31_SubscribeAndLoopReplaceWhole ==
    [][~(price_call.pc = "ticker" /\ price_call'.pc = "idle") =>
          \A s \in DOMAIN market_data' :
              /\ \/ s \in DOMAIN market_data /\ market_data'[s] = market_data[s]
                 \/ EmptyOrComplete(s, market_data'[s])
              /\ ~FieldWritten(s)]_vars

====
